---- MODULE Spec2Model ----
(***************************************************************************)
(* Booking availability, pricing and lifecycle of the car-rental backend:  *)
(* backend/utils/validateBooking.js, backend/controllers/                  *)
(* bookingController.js, the Booking model (unnamed/part_000), the Car     *)
(* model (backend/models/Car.js) and the car controller (README.md).       *)
(*                                                                         *)
(* Time is counted in minutes.  A calendar date is a day number d; the     *)
(* Date value JavaScript builds from it is the instant of its midnight,    *)
(* d * 1440 (the server clock is taken to run on UTC, so that              *)
(* new Date("YYYY-MM-DD") and toDateString() name the same day).  A time   *)
(* of day "HH:MM" is its minute of the day.  Money is counted in cents.    *)
(***************************************************************************)
EXTENDS Integers, Sequences, FiniteSets, Bags, TLC

VARIABLES
    cars,       \* the Car collection: car id -> car document, or NoDoc
    bookings,   \* the Booking collection: sequence of booking documents, _id = index
    now,        \* the server clock (new Date()), in minutes
    reqs,       \* createBooking requests that passed the availability check
                \* and have not yet reached Booking.create
    res,        \* the response of the request handled last
    rates       \* rateBooking requests that have read their booking and its
                \* car and have not yet saved the car

vars == <<cars, bookings, now, reqs, res, rates>>

-----------------------------------------------------------------------------
(* Bounds of the model                                                     *)

MaxBookings == 2        \* bookings ever created, where requests for a car compete
MaxTracked  == 1        \* bookings ever created, where one booking is followed
MaxInFlight == 2        \* createBooking requests between check and write
MaxTicks    == 2        \* clock steps

-----------------------------------------------------------------------------
(* Universe of the model                                                   *)

MinutesPerHour == 60
HoursPerDay    == 24
MinutesPerDay  == HoursPerDay * MinutesPerHour

TickStep == 12 * MinutesPerHour          \* the clock advances in 12-hour steps
Now0     == 9 * MinutesPerHour           \* the clock starts on day 0 at 09:00

Users    == {"renter", "owner", "admin"}
role(u)  == IF u = "admin" THEN "admin" ELSE "user"

CarIds   == {"car1"}                     \* cars in the collection
NoCarId  == "car9"                       \* an id no car has
NoDoc    == [none |-> TRUE]              \* findById found nothing
NoBooking == 0                           \* excludeBookingId = null
NoDate    == -1                          \* a date the request does not carry

Days     == {1, 2, 3}                    \* the calendar days a request can name
T0900    == 9 * MinutesPerHour
T1000    == 10 * MinutesPerHour
T0959    == T1000 - 1
T1100    == 11 * MinutesPerHour
T1200    == 12 * MinutesPerHour
T1400    == 14 * MinutesPerHour
T1600    == 16 * MinutesPerHour

BookingStatuses == {"pending", "confirmed", "active", "completed", "cancelled", "no-show"}
CarStatuses     == {"active", "inactive", "maintenance", "rented"}
InsuranceTypes  == {"basic", "comprehensive", "premium"}

Resp(code, message) == [code |-> code, message |-> message]
RespErrors(code, message, errors) == [code |-> code, message |-> message, errors |-> errors]
Idle == Resp(0, "")                      \* no response is waiting to be sent

-----------------------------------------------------------------------------
(* Arithmetic helpers                                                      *)

\* Math.ceil(a / b) for b > 0
Ceil(a, b) == -((-a) \div b)

\* Math.round(a / b) for b > 0: the nearest integer, halves rounded up
Round(a, b) == (a \div b) + (IF 2 * (a % b) >= b THEN 1 ELSE 0)

-----------------------------------------------------------------------------
(* validateBooking.js                                                      *)

\* new Date(`${date}T${time}`), in minutes
Instant(date, time) == date * MinutesPerDay + time

\* new Date(date): the midnight of the day
DateOf(date) == date * MinutesPerDay

\* validateBookingDates without the rule of the shortest rental
validateBookingDatesNoMinimum(startDate, endDate, startTime, endTime) ==
    LET start   == Instant(startDate, startTime)
        end     == Instant(endDate, endTime)
        minutes == end - start
        e1 == IF start <= now THEN <<"Start date and time must be in the future">> ELSE <<>>
        e2 == IF end <= start THEN <<"End date and time must be after start date and time">> ELSE <<>>
        e4 == IF minutes > 30 * MinutesPerDay THEN <<"Booking cannot be more than 30 days long">> ELSE <<>>
        errors == e1 \o e2 \o e4
    IN  [isValid  |-> errors = <<>>,
         errors   |-> errors,
         duration |-> [hours |-> Ceil(minutes, MinutesPerHour),
                       days  |-> Ceil(minutes, MinutesPerDay)]]

\* validateBookingDates with a rental of exactly one hour refused
validateBookingDatesOverOneHour(startDate, endDate, startTime, endTime) ==
    LET start   == Instant(startDate, startTime)
        end     == Instant(endDate, endTime)
        minutes == end - start
        e1 == IF start <= now THEN <<"Start date and time must be in the future">> ELSE <<>>
        e2 == IF end <= start THEN <<"End date and time must be after start date and time">> ELSE <<>>
        e3 == IF minutes <= MinutesPerHour THEN <<"Booking must be at least 1 hour long">> ELSE <<>>
        e4 == IF minutes > 30 * MinutesPerDay THEN <<"Booking cannot be more than 30 days long">> ELSE <<>>
        errors == e1 \o e2 \o e3 \o e4
    IN  [isValid  |-> errors = <<>>,
         errors   |-> errors,
         duration |-> [hours |-> Ceil(minutes, MinutesPerHour),
                       days  |-> Ceil(minutes, MinutesPerDay)]]

\* validateBookingDates: every rule is tried, the violations accumulate
validateBookingDates(startDate, endDate, startTime, endTime) ==
    LET start   == Instant(startDate, startTime)
        end     == Instant(endDate, endTime)
        minutes == end - start
        e1 == IF start <= now THEN <<"Start date and time must be in the future">> ELSE <<>>
        e2 == IF end <= start THEN <<"End date and time must be after start date and time">> ELSE <<>>
        e3 == IF minutes < MinutesPerHour THEN <<"Booking must be at least 1 hour long">> ELSE <<>>
        e4 == IF minutes > 30 * MinutesPerDay THEN <<"Booking cannot be more than 30 days long">> ELSE <<>>
        errors == e1 \o e2 \o e3 \o e4
    IN  [isValid  |-> errors = <<>>,
         errors   |-> errors,
         duration |-> [hours |-> Ceil(minutes, MinutesPerHour),
                       days  |-> Ceil(minutes, MinutesPerDay)]]

\* the overlap test with touching end points let through
OverlapsInside(start, end, otherStart, otherEnd) == start < otherEnd /\ end > otherStart

\* the overlap test of the three conflict searches
Overlaps(start, end, otherStart, otherEnd) == start <= otherEnd /\ end >= otherStart

ActiveStatuses == {"pending", "confirmed", "active"}

\* the conflict search with a status filter that leaves cancelled bookings in
conflictingBookingsNotClosed(carId, startDate, endDate, excludeBookingId) ==
    {id \in 1 .. Len(bookings) :
        /\ bookings[id].car = carId
        /\ bookings[id].status \notin {"completed", "no-show"}
        /\ Overlaps(DateOf(startDate), DateOf(endDate),
                    DateOf(bookings[id].startDate), DateOf(bookings[id].endDate))
        /\ (excludeBookingId # NoBooking => id # excludeBookingId)}

\* the conflict search with the stored bookings taken from their start time
\* to their end time
conflictingBookingsByInstant(carId, startDate, endDate, excludeBookingId) ==
    {id \in 1 .. Len(bookings) :
        /\ bookings[id].car = carId
        /\ bookings[id].status \in ActiveStatuses
        /\ Overlaps(DateOf(startDate), DateOf(endDate),
                    Instant(bookings[id].startDate, bookings[id].startTime),
                    Instant(bookings[id].endDate, bookings[id].endTime))
        /\ (excludeBookingId # NoBooking => id # excludeBookingId)}

\* Booking.find(query) of checkCarAvailability: the ids of the conflicting bookings
conflictingBookings(carId, startDate, endDate, excludeBookingId) ==
    {id \in 1 .. Len(bookings) :
        /\ bookings[id].car = carId
        /\ bookings[id].status \in ActiveStatuses
        /\ Overlaps(DateOf(startDate), DateOf(endDate),
                    DateOf(bookings[id].startDate), DateOf(bookings[id].endDate))
        /\ (excludeBookingId # NoBooking => id # excludeBookingId)}

findCar(carId) == IF carId \in DOMAIN cars THEN cars[carId] ELSE NoDoc

Unavailable(reason) == [isAvailable |-> FALSE, reason |-> reason, conflictingBookings |-> {}]

\* checkCarAvailability without the search of the maintenance schedule
checkCarAvailabilityNoMaintenance(carId, startDate, endDate, excludeBookingId) ==
    LET car   == findCar(carId)
        start == DateOf(startDate)
        end   == DateOf(endDate)
        conflicts == conflictingBookings(carId, startDate, endDate, excludeBookingId)
    IN  IF car = NoDoc THEN Unavailable("Car not found")
        ELSE IF car.status # "active" THEN Unavailable("Car is currently " \o car.status)
        ELSE IF ~car.availability.isAvailable THEN Unavailable("Car is not available for booking")
        ELSE IF \E period \in car.availability.unavailableDates :
                    Overlaps(start, end, DateOf(period[1]), DateOf(period[2]))
             THEN Unavailable("Car is not available for the selected dates")
        ELSE IF conflicts # {}
             THEN [isAvailable |-> FALSE,
                   reason |-> "Car is already booked for the selected dates",
                   conflictingBookings |-> conflicts]
        ELSE [isAvailable |-> TRUE, reason |-> "", conflictingBookings |-> {}]

\* checkCarAvailability with the search for bookings made first
checkCarAvailabilityBookingsFirst(carId, startDate, endDate, excludeBookingId) ==
    LET car   == findCar(carId)
        start == DateOf(startDate)
        end   == DateOf(endDate)
        conflicts == conflictingBookings(carId, startDate, endDate, excludeBookingId)
    IN  IF car = NoDoc THEN Unavailable("Car not found")
        ELSE IF conflicts # {}
             THEN [isAvailable |-> FALSE,
                   reason |-> "Car is already booked for the selected dates",
                   conflictingBookings |-> conflicts]
        ELSE IF car.status # "active" THEN Unavailable("Car is currently " \o car.status)
        ELSE IF ~car.availability.isAvailable THEN Unavailable("Car is not available for booking")
        ELSE IF \E period \in car.availability.unavailableDates :
                    Overlaps(start, end, DateOf(period[1]), DateOf(period[2]))
             THEN Unavailable("Car is not available for the selected dates")
        ELSE IF \E maintenance \in car.availability.maintenanceSchedule :
                    Overlaps(start, end, DateOf(maintenance[1]), DateOf(maintenance[2]))
             THEN Unavailable("Car is scheduled for maintenance during the selected dates")
        ELSE [isAvailable |-> TRUE, reason |-> "", conflictingBookings |-> {}]

checkCarAvailability(carId, startDate, endDate, excludeBookingId) ==
    LET car   == findCar(carId)
        start == DateOf(startDate)
        end   == DateOf(endDate)
        conflicts == conflictingBookings(carId, startDate, endDate, excludeBookingId)
    IN  IF car = NoDoc THEN Unavailable("Car not found")
        ELSE IF car.status # "active" THEN Unavailable("Car is currently " \o car.status)
        ELSE IF ~car.availability.isAvailable THEN Unavailable("Car is not available for booking")
        ELSE IF \E period \in car.availability.unavailableDates :
                    Overlaps(start, end, DateOf(period[1]), DateOf(period[2]))
             THEN Unavailable("Car is not available for the selected dates")
        ELSE IF \E maintenance \in car.availability.maintenanceSchedule :
                    Overlaps(start, end, DateOf(maintenance[1]), DateOf(maintenance[2]))
             THEN Unavailable("Car is scheduled for maintenance during the selected dates")
        ELSE IF conflicts # {}
             THEN [isAvailable |-> FALSE,
                   reason |-> "Car is already booked for the selected dates",
                   conflictingBookings |-> conflicts]
        ELSE [isAvailable |-> TRUE, reason |-> "", conflictingBookings |-> {}]

\* validateDriverLicense; the expiry is a calendar day
validateDriverLicense(licenseNumber, licenseExpiry) ==
    LET expiryDate == DateOf(licenseExpiry)
        e1 == IF licenseNumber = "" THEN <<"Driver license number is required">> ELSE <<>>
        e2 == IF licenseExpiry = NoDate
              THEN <<"Driver license expiry date is required">>
              ELSE (IF expiryDate <= now THEN <<"Driver license has expired">> ELSE <<>>)
                   \o (IF expiryDate <= now + 30 * MinutesPerDay
                       THEN <<"Driver license expires too soon for this booking">>
                       ELSE <<>>)
        errors == e1 \o e2
    IN  [isValid |-> errors = <<>>, errors |-> errors]

\* validateLocation, for a location the request carries
validateLocation(location, type) ==
    LET e1 == IF location.address = "" THEN <<type \o " address is required">> ELSE <<>>
        e2 == IF location.city = "" THEN <<type \o " city is required">> ELSE <<>>
        e3 == IF location.country = "" THEN <<type \o " country is required">> ELSE <<>>
        errors == e1 \o e2 \o e3
    IN  [isValid |-> errors = <<>>, errors |-> errors]

insuranceRates(insuranceType) ==
    CASE insuranceType = "basic"         -> 5
      [] insuranceType = "comprehensive" -> 10
      [] insuranceType = "premium"       -> 15
      [] OTHER                           -> 5

taxRate == 10      \* per cent

\* calculateBookingPrice without the hours past the last whole day
calculateBookingPriceNoRemainder(car, duration, insuranceType) ==
    LET hours == duration.hours
        days  == duration.days
        weeks == Ceil(days, 7)
        extraHours == hours % HoursPerDay
        basePrice ==
            IF days >= 7
            THEN IF car.pricing.weekly # 0 THEN weeks * car.pricing.weekly
                                           ELSE weeks * 7 * car.pricing.daily
            ELSE IF days >= 1
            THEN days * car.pricing.daily
            ELSE hours * car.pricing.hourly
        rate == insuranceRates(insuranceType)
        \* insuranceCost = basePrice * rate / 100
        \* taxes = (basePrice + insuranceCost) * taxRate / 100
        \* the two together, in ten-thousandths of a cent
        insurance10000 == basePrice * (100 * rate)
        taxes10000     == basePrice * ((100 + rate) * taxRate)
        fees == IF days >= 1 THEN 2500 ELSE 1000
        \* basePrice and fees are whole cents: only insurance and taxes
        \* carry a fraction into the total
        total == basePrice + fees
                 + Round(basePrice * (100 * rate + (100 + rate) * taxRate), 10000)
    IN  [basePrice     |-> basePrice,
         insuranceCost |-> Round(insurance10000, 10000),
         taxes         |-> Round(taxes10000, 10000),
         fees          |-> fees,
         totalPrice    |-> total,
         currency      |-> car.pricing.currency]

\* calculateBookingPrice with the taxes taken on the base price alone
calculateBookingPriceTaxOnBase(car, duration, insuranceType) ==
    LET hours == duration.hours
        days  == duration.days
        weeks == Ceil(days, 7)
        extraHours == hours % HoursPerDay
        basePrice ==
            IF days >= 7
            THEN IF car.pricing.weekly # 0 THEN weeks * car.pricing.weekly
                                           ELSE weeks * 7 * car.pricing.daily
            ELSE IF days >= 1
            THEN days * car.pricing.daily
                 + (IF extraHours > 0 THEN extraHours * car.pricing.hourly ELSE 0)
            ELSE hours * car.pricing.hourly
        rate == insuranceRates(insuranceType)
        \* insuranceCost = basePrice * rate / 100
        \* taxes = (basePrice + insuranceCost) * taxRate / 100
        \* the two together, in ten-thousandths of a cent
        insurance10000 == basePrice * (100 * rate)
        taxes10000     == basePrice * (100 * taxRate)
        fees == IF days >= 1 THEN 2500 ELSE 1000
        \* basePrice and fees are whole cents: only insurance and taxes
        \* carry a fraction into the total
        total == basePrice + fees
                 + Round(basePrice * (100 * rate + 100 * taxRate), 10000)
    IN  [basePrice     |-> basePrice,
         insuranceCost |-> Round(insurance10000, 10000),
         taxes         |-> Round(taxes10000, 10000),
         fees          |-> fees,
         totalPrice    |-> total,
         currency      |-> car.pricing.currency]

\* calculateBookingPrice, in cents; each output is rounded from the unrounded amounts
calculateBookingPrice(car, duration, insuranceType) ==
    LET hours == duration.hours
        days  == duration.days
        weeks == Ceil(days, 7)
        extraHours == hours % HoursPerDay
        basePrice ==
            IF days >= 7
            THEN IF car.pricing.weekly # 0 THEN weeks * car.pricing.weekly
                                           ELSE weeks * 7 * car.pricing.daily
            ELSE IF days >= 1
            THEN days * car.pricing.daily
                 + (IF extraHours > 0 THEN extraHours * car.pricing.hourly ELSE 0)
            ELSE hours * car.pricing.hourly
        rate == insuranceRates(insuranceType)
        \* insuranceCost = basePrice * rate / 100
        \* taxes = (basePrice + insuranceCost) * taxRate / 100
        \* the two together, in ten-thousandths of a cent
        insurance10000 == basePrice * (100 * rate)
        taxes10000     == basePrice * ((100 + rate) * taxRate)
        fees == IF days >= 1 THEN 2500 ELSE 1000
        \* basePrice and fees are whole cents: only insurance and taxes
        \* carry a fraction into the total
        total == basePrice + fees
                 + Round(basePrice * (100 * rate + (100 + rate) * taxRate), 10000)
    IN  [basePrice     |-> basePrice,
         insuranceCost |-> Round(insurance10000, 10000),
         taxes         |-> Round(taxes10000, 10000),
         fees          |-> fees,
         totalPrice    |-> total,
         currency      |-> car.pricing.currency]

-----------------------------------------------------------------------------
(* The Booking model                                                       *)

\* hoursUntilStart, in minutes
untilStart(booking) == Instant(booking.startDate, booking.startTime) - now

\* canBeCancelled with "24 hours or more" for "more than 24 hours"
canBeCancelledFrom24(booking) ==
    \/ booking.status = "pending"
    \/ booking.status = "confirmed" /\ untilStart(booking) >= 24 * MinutesPerHour

canBeCancelled(booking) ==
    \/ booking.status = "pending"
    \/ booking.status = "confirmed" /\ untilStart(booking) > 24 * MinutesPerHour

\* calculateRefund with the full refund only for more than 48 hours
calculateRefundOver48(booking) ==
    IF ~canBeCancelled(booking) THEN [num |-> 0, den |-> 1]
    ELSE IF untilStart(booking) > 48 * MinutesPerHour
         THEN [num |-> booking.pricing.totalPrice, den |-> 1]
    ELSE IF untilStart(booking) >= 24 * MinutesPerHour
         THEN [num |-> booking.pricing.totalPrice, den |-> 2]
    ELSE [num |-> 0, den |-> 1]

\* calculateRefund: the amount num / den, in cents
calculateRefund(booking) ==
    IF ~canBeCancelled(booking) THEN [num |-> 0, den |-> 1]
    ELSE IF untilStart(booking) >= 48 * MinutesPerHour
         THEN [num |-> booking.pricing.totalPrice, den |-> 1]
    ELSE IF untilStart(booking) >= 24 * MinutesPerHour
         THEN [num |-> booking.pricing.totalPrice, den |-> 2]
    ELSE [num |-> 0, den |-> 1]

\* bookingSchema.pre('save'): refuses an interval that does not end after its
\* start, and recomputes the duration
preSaveOk(booking) ==
    Instant(booking.endDate, booking.endTime) > Instant(booking.startDate, booking.startTime)

preSave(booking) ==
    LET minutes == Instant(booking.endDate, booking.endTime)
                   - Instant(booking.startDate, booking.startTime)
    IN  [booking EXCEPT !.duration = [hours |-> Ceil(minutes, MinutesPerHour),
                                      days  |-> Ceil(minutes, MinutesPerDay)]]

NoCancellation == [reason |-> "", cancelledAt |-> -1, cancelledBy |-> "",
                   refundAmount |-> [num |-> 0, den |-> 1]]
NoRating       == [carRating |-> 0, serviceRating |-> 0]
NoCompletion   == [completed |-> FALSE, mileageEnd |-> -1, fuelEndLevel |-> "",
                   inspector |-> "", date |-> -1]

-----------------------------------------------------------------------------
(* The state after start-up: one listed car, no booking                    *)

Car0 == [owner         |-> "owner",
         status        |-> "active",
         availability  |-> [isAvailable |-> TRUE,
                            unavailableDates |-> {},
                            maintenanceSchedule |-> {}],
         pricing       |-> [hourly |-> 1000, daily |-> 10000, weekly |-> 60000,
                            currency |-> "USD"],
         rating        |-> [average |-> [num |-> 0, den |-> 1], count |-> 0],
         totalBookings |-> 0]

Init ==
    /\ cars = [c \in CarIds |-> Car0]
    /\ bookings = <<>>
    /\ now = Now0
    /\ reqs = EmptyBag
    /\ res = Idle
    /\ rates = EmptyBag

-----------------------------------------------------------------------------
(* bookingController.js                                                    *)

InFlight == BagCardinality(reqs)

\* findByIdAndUpdate(id, body): $set of every field the body names
Merge(doc, body) == [f \in DOMAIN doc |-> IF f \in DOMAIN body THEN body[f] ELSE doc[f]]

isOwnerOrAdmin(user, owner) == ~(owner # user /\ role(user) # "admin")

\* createBooking up to the availability check, for a request that carries
\* every required field.  Each validator that fails answers at once, with its
\* own errors; a request without a location object makes validateLocation throw.
CreateCheck(user, carId, startDate, endDate, startTime, endTime, insuranceType, driverDetails, pickupLocation, dropoffLocation) ==
    LET dateValidation    == validateBookingDates(startDate, endDate, startTime, endTime)
        licenseValidation == validateDriverLicense(driverDetails.licenseNumber,
                                                   driverDetails.licenseExpiry)
        pickupValidation  == validateLocation(pickupLocation, "Pickup")
        dropoffValidation == validateLocation(dropoffLocation, "Dropoff")
        fail(response) == /\ res' = response
                          /\ UNCHANGED <<cars, bookings, now, reqs, rates>>
        availabilityCheck == checkCarAvailability(carId, startDate, endDate, NoBooking)
        car     == findCar(carId)
        pricing == calculateBookingPrice(car, dateValidation.duration, insuranceType)
        bookingData ==
            [user      |-> user,
             car       |-> carId,
             startDate |-> startDate,
             endDate   |-> endDate,
             startTime |-> startTime,
             endTime   |-> endTime,
             pricing   |-> [basePrice  |-> pricing.basePrice,
                            taxes      |-> pricing.taxes,
                            fees       |-> pricing.fees,
                            totalPrice |-> pricing.totalPrice,
                            currency   |-> pricing.currency],
             duration  |-> dateValidation.duration,
             insurance |-> [type |-> insuranceType, cost |-> pricing.insuranceCost]]
    IN  IF ~dateValidation.isValid
        THEN fail(RespErrors(400, "Invalid booking dates", dateValidation.errors))
        ELSE IF ~licenseValidation.isValid
        THEN fail(RespErrors(400, "Invalid driver license", licenseValidation.errors))
        ELSE IF pickupLocation = NoDoc THEN fail(Resp(500, "Server error"))
        ELSE IF ~pickupValidation.isValid
        THEN fail(RespErrors(400, "Invalid pickup location", pickupValidation.errors))
        ELSE IF dropoffLocation = NoDoc THEN fail(Resp(500, "Server error"))
        ELSE IF ~dropoffValidation.isValid
        THEN fail(RespErrors(400, "Invalid dropoff location", dropoffValidation.errors))
        ELSE IF ~availabilityCheck.isAvailable
        THEN fail(Resp(400, availabilityCheck.reason))
        ELSE /\ reqs' = reqs (+) SetToBag({bookingData})
             /\ UNCHANGED <<cars, bookings, now, res, rates>>

\* the write made only if the car is still free: the availability check and
\* Booking.create as one step
CreateWriteIfStillFree(bookingData) ==
    /\ BagIn(bookingData, reqs)
    /\ reqs' = reqs (-) SetToBag({bookingData})
    /\ LET doc == [user         |-> bookingData.user,
                   car          |-> bookingData.car,
                   startDate    |-> bookingData.startDate,
                   endDate      |-> bookingData.endDate,
                   startTime    |-> bookingData.startTime,
                   endTime      |-> bookingData.endTime,
                   pricing      |-> bookingData.pricing,
                   duration     |-> bookingData.duration,
                   insurance    |-> bookingData.insurance,
                   status       |-> "pending",
                   cancellation |-> NoCancellation,
                   completion   |-> NoCompletion,
                   rating       |-> NoRating]
           check == checkCarAvailability(bookingData.car, bookingData.startDate,
                                         bookingData.endDate, NoBooking)
       IN  IF check.isAvailable
           THEN /\ bookings' = Append(bookings, preSave(doc))
                /\ res' = Resp(201, "Booking created successfully")
           ELSE /\ res' = Resp(400, check.reason)
                /\ UNCHANGED bookings
    /\ UNCHANGED <<cars, now, rates>>

\* Booking.create(bookingData) and the response
CreateWrite(bookingData) ==
    /\ BagIn(bookingData, reqs)
    /\ reqs' = reqs (-) SetToBag({bookingData})
    /\ LET doc == [user         |-> bookingData.user,
                   car          |-> bookingData.car,
                   startDate    |-> bookingData.startDate,
                   endDate      |-> bookingData.endDate,
                   startTime    |-> bookingData.startTime,
                   endTime      |-> bookingData.endTime,
                   pricing      |-> bookingData.pricing,
                   duration     |-> bookingData.duration,
                   insurance    |-> bookingData.insurance,
                   status       |-> "pending",
                   cancellation |-> NoCancellation,
                   completion   |-> NoCompletion,
                   rating       |-> NoRating]
       IN  IF preSaveOk(doc)
           THEN /\ bookings' = Append(bookings, preSave(doc))
                /\ res' = Resp(201, "Booking created successfully")
           ELSE /\ res' = Resp(500, "Server error")
                /\ UNCHANGED bookings
    /\ UNCHANGED <<cars, now, rates>>

IntervalFields == {"startDate", "endDate", "startTime", "endTime"}

\* updateBooking.  A date the body does not name is taken from the stored
\* document, a Date object: `${date}T${time}` is then no date, every comparison
\* with it is false, the duration and the price are NaN, and the write is
\* refused by the number cast.
UpdateBooking(user, id, body) ==
    IF id \notin 1 .. Len(bookings)
    THEN /\ res' = Resp(404, "Booking not found")
         /\ UNCHANGED <<cars, bookings, now, reqs, rates>>
    ELSE
    LET booking == bookings[id]
        given(f) == f \in DOMAIN body
        newStartDate == IF given("startDate") THEN body.startDate ELSE booking.startDate
        newEndDate   == IF given("endDate") THEN body.endDate ELSE booking.endDate
        newStartTime == IF given("startTime") THEN body.startTime ELSE booking.startTime
        newEndTime   == IF given("endTime") THEN body.endTime ELSE booking.endTime
        dateValidation == validateBookingDates(newStartDate, newEndDate, newStartTime, newEndTime)
        startIsDate == given("startDate")
        endIsDate   == given("endDate")
        isValid == IF startIsDate /\ endIsDate THEN dateValidation.isValid
                   ELSE IF startIsDate THEN Instant(newStartDate, newStartTime) > now
                   ELSE TRUE
        availabilityCheck == checkCarAvailability(booking.car, newStartDate, newEndDate, id)
        car     == findCar(booking.car)
        pricing == calculateBookingPrice(car, dateValidation.duration, booking.insurance.type)
        derived == [pricing   |-> [basePrice  |-> pricing.basePrice,
                                   taxes      |-> pricing.taxes,
                                   fees       |-> pricing.fees,
                                   totalPrice |-> pricing.totalPrice,
                                   currency   |-> pricing.currency],
                    duration  |-> dateValidation.duration,
                    insurance |-> [type |-> booking.insurance.type,
                                   cost |-> pricing.insuranceCost]]
        fail(code, message) == /\ res' = Resp(code, message)
                               /\ UNCHANGED <<cars, bookings, now, reqs, rates>>
        write(doc) == /\ bookings' = [bookings EXCEPT ![id] = doc]
                      /\ res' = Resp(200, "Booking updated successfully")
                      /\ UNCHANGED <<cars, now, reqs, rates>>
    IN  IF booking.user # user /\ role(user) # "admin"
        THEN fail(403, "Not authorized to update this booking")
        ELSE IF booking.status \in {"active", "completed", "cancelled"}
        THEN fail(400, "Cannot update booking in current status")
        ELSE IF DOMAIN body \cap IntervalFields # {}
        THEN IF ~isValid THEN fail(400, "Invalid booking dates")
             ELSE IF ~availabilityCheck.isAvailable THEN fail(400, availabilityCheck.reason)
             ELSE IF ~(startIsDate /\ endIsDate) \/ car = NoDoc THEN fail(500, "Server error")
             ELSE write(Merge(Merge(booking, body), derived))
        ELSE write(Merge(booking, body))

\* checkCarAvailability when the record store fails under one of its queries:
\* the catch answers for it
checkCarAvailabilityStoreDown == Unavailable("Error checking availability")

\* createBooking, for a request with a valid license and valid locations,
\* when the record store fails during the availability check
CreateBookingStoreDown(user, carId, startDate, endDate, startTime, endTime) ==
    LET dateValidation    == validateBookingDates(startDate, endDate, startTime, endTime)
        availabilityCheck == checkCarAvailabilityStoreDown
    IN  /\ res' = IF ~dateValidation.isValid
                  THEN RespErrors(400, "Invalid booking dates", dateValidation.errors)
                  ELSE Resp(400, availabilityCheck.reason)
        /\ UNCHANGED <<cars, bookings, now, reqs, rates>>

\* updateBooking, for a body that names the whole interval, when the record
\* store fails during the availability check
UpdateBookingStoreDown(user, id, body) ==
    IF id \notin 1 .. Len(bookings)
    THEN /\ res' = Resp(404, "Booking not found")
         /\ UNCHANGED <<cars, bookings, now, reqs, rates>>
    ELSE
    LET booking == bookings[id]
        dateValidation == validateBookingDates(body.startDate, body.endDate,
                                               body.startTime, body.endTime)
        availabilityCheck == checkCarAvailabilityStoreDown
        fail(code, message) == /\ res' = Resp(code, message)
                               /\ UNCHANGED <<cars, bookings, now, reqs, rates>>
    IN  IF booking.user # user /\ role(user) # "admin"
        THEN fail(403, "Not authorized to update this booking")
        ELSE IF booking.status \in {"active", "completed", "cancelled"}
        THEN fail(400, "Cannot update booking in current status")
        ELSE IF ~dateValidation.isValid THEN fail(400, "Invalid booking dates")
        ELSE fail(400, availabilityCheck.reason)

\* cancelBooking
CancelBooking(user, id, reason) ==
    IF id \notin 1 .. Len(bookings)
    THEN /\ res' = Resp(404, "Booking not found")
         /\ UNCHANGED <<cars, bookings, now, reqs, rates>>
    ELSE
    LET booking == bookings[id]
        refundAmount == calculateRefund(booking)
        doc == [booking EXCEPT
                   !.status = "cancelled",
                   !.cancellation = [reason       |-> IF reason = "" THEN "Cancelled by user"
                                                                      ELSE reason,
                                     cancelledAt  |-> now,
                                     cancelledBy  |-> user,
                                     refundAmount |-> refundAmount]]
        fail(code, message) == /\ res' = Resp(code, message)
                               /\ UNCHANGED <<cars, bookings, now, reqs, rates>>
    IN  IF booking.user # user /\ role(user) # "admin"
        THEN fail(403, "Not authorized to cancel this booking")
        ELSE IF ~canBeCancelled(booking)
        THEN fail(400, "Booking cannot be cancelled at this time")
        ELSE IF ~preSaveOk(doc) THEN fail(500, "Server error")
        ELSE /\ bookings' = [bookings EXCEPT ![id] = preSave(doc)]
             /\ res' = Resp(200, "Booking cancelled successfully")
             /\ UNCHANGED <<cars, now, reqs, rates>>

\* confirmBooking that starts the rental at once
ConfirmBookingStarts(user, id) ==
    IF id \notin 1 .. Len(bookings)
    THEN /\ res' = Resp(404, "Booking not found")
         /\ UNCHANGED <<cars, bookings, now, reqs, rates>>
    ELSE
    LET booking == bookings[id]
        car     == findCar(booking.car)
        doc     == [booking EXCEPT !.status = "active"]
        fail(code, message) == /\ res' = Resp(code, message)
                               /\ UNCHANGED <<cars, bookings, now, reqs, rates>>
    IN  IF car = NoDoc THEN fail(500, "Server error")
        ELSE IF ~isOwnerOrAdmin(user, car.owner)
        THEN fail(403, "Not authorized to confirm this booking")
        ELSE IF booking.status # "pending"
        THEN fail(400, "Only pending bookings can be confirmed")
        ELSE IF ~preSaveOk(doc) THEN fail(500, "Server error")
        ELSE /\ bookings' = [bookings EXCEPT ![id] = preSave(doc)]
             /\ res' = Resp(200, "Booking confirmed successfully")
             /\ UNCHANGED <<cars, now, reqs, rates>>

\* confirmBooking
ConfirmBooking(user, id) ==
    IF id \notin 1 .. Len(bookings)
    THEN /\ res' = Resp(404, "Booking not found")
         /\ UNCHANGED <<cars, bookings, now, reqs, rates>>
    ELSE
    LET booking == bookings[id]
        car     == findCar(booking.car)
        doc     == [booking EXCEPT !.status = "confirmed"]
        fail(code, message) == /\ res' = Resp(code, message)
                               /\ UNCHANGED <<cars, bookings, now, reqs, rates>>
    IN  IF car = NoDoc THEN fail(500, "Server error")
        ELSE IF ~isOwnerOrAdmin(user, car.owner)
        THEN fail(403, "Not authorized to confirm this booking")
        ELSE IF booking.status # "pending"
        THEN fail(400, "Only pending bookings can be confirmed")
        ELSE IF ~preSaveOk(doc) THEN fail(500, "Server error")
        ELSE /\ bookings' = [bookings EXCEPT ![id] = preSave(doc)]
             /\ res' = Resp(200, "Booking confirmed successfully")
             /\ UNCHANGED <<cars, now, reqs, rates>>

\* the response is sent; the server takes up the next event
Reply ==
    /\ res # Idle
    /\ res' = Idle
    /\ UNCHANGED <<cars, bookings, now, reqs, rates>>

\* the clock
Tick ==
    /\ res = Idle
    /\ now < Now0 + MaxTicks * TickStep
    /\ now' = now + TickStep
    /\ UNCHANGED <<cars, bookings, reqs, res, rates>>

\* completeBooking without the check of the caller
CompleteBookingAnyCaller(user, id, mileage, fuelLevel) ==
    IF id \notin 1 .. Len(bookings)
    THEN /\ res' = Resp(404, "Booking not found")
         /\ UNCHANGED <<cars, bookings, now, reqs, rates>>
    ELSE
    LET booking == bookings[id]
        car     == findCar(booking.car)
        doc     == [booking EXCEPT
                       !.status = "completed",
                       !.completion = [completed    |-> TRUE,
                                       mileageEnd   |-> mileage,
                                       fuelEndLevel |-> fuelLevel,
                                       inspector    |-> user,
                                       date         |-> now]]
        fail(code, message) == /\ res' = Resp(code, message)
                               /\ UNCHANGED <<cars, bookings, now, reqs, rates>>
    IN  IF car = NoDoc THEN fail(500, "Server error")
        ELSE IF booking.status # "active"
        THEN fail(400, "Only active bookings can be completed")
        ELSE IF ~preSaveOk(doc) THEN fail(500, "Server error")
        ELSE /\ bookings' = [bookings EXCEPT ![id] = preSave(doc)]
             /\ cars' = [cars EXCEPT ![booking.car].totalBookings = @ + 1]
             /\ res' = Resp(200, "Booking completed successfully")
             /\ UNCHANGED <<now, reqs, rates>>

\* completeBooking
CompleteBooking(user, id, mileage, fuelLevel) ==
    IF id \notin 1 .. Len(bookings)
    THEN /\ res' = Resp(404, "Booking not found")
         /\ UNCHANGED <<cars, bookings, now, reqs, rates>>
    ELSE
    LET booking == bookings[id]
        car     == findCar(booking.car)
        doc     == [booking EXCEPT
                       !.status = "completed",
                       !.completion = [completed    |-> TRUE,
                                       mileageEnd   |-> mileage,
                                       fuelEndLevel |-> fuelLevel,
                                       inspector    |-> user,
                                       date         |-> now]]
        fail(code, message) == /\ res' = Resp(code, message)
                               /\ UNCHANGED <<cars, bookings, now, reqs, rates>>
    IN  IF car = NoDoc THEN fail(500, "Server error")
        ELSE IF ~isOwnerOrAdmin(user, car.owner)
        THEN fail(403, "Not authorized to complete this booking")
        ELSE IF booking.status # "active"
        THEN fail(400, "Only active bookings can be completed")
        ELSE IF ~preSaveOk(doc) THEN fail(500, "Server error")
        ELSE /\ bookings' = [bookings EXCEPT ![id] = preSave(doc)]
             /\ cars' = [cars EXCEPT ![booking.car].totalBookings = @ + 1]
             /\ res' = Resp(200, "Booking completed successfully")
             /\ UNCHANGED <<now, reqs, rates>>

RECURSIVE Gcd(_, _)
Gcd(a, b) == IF b = 0 THEN a ELSE Gcd(b, a % b)

\* the fraction num / den in lowest terms
Fraction(num, den) == [num |-> num \div Gcd(num, den), den |-> den \div Gcd(num, den)]

\* Car.updateRating with the count raised before the total is taken
updateRatingCountFirst(car, newRating) ==
    LET count == car.rating.count + 1
        average == Fraction(car.rating.average.num * count
                              + newRating * car.rating.average.den,
                            car.rating.average.den * count)
    IN  [car EXCEPT !.rating = [average |-> average, count |-> count]]

\* Car.updateRating: the running average, kept as an exact fraction
updateRating(car, newRating) ==
    LET count == car.rating.count + 1
        \* currentTotal = average * count = num * count / den
        average == Fraction(car.rating.average.num * car.rating.count
                              + newRating * car.rating.average.den,
                            car.rating.average.den * count)
    IN  [car EXCEPT !.rating = [average |-> average, count |-> count]]

\* rateBooking without the refusal of a booking that carries a rating
RateBookingAgain(user, id, carRating, serviceRating) ==
    IF carRating = 0 \/ serviceRating = 0
    THEN /\ res' = Resp(400, "Car rating and service rating are required")
         /\ UNCHANGED <<cars, bookings, now, reqs, rates>>
    ELSE IF id \notin 1 .. Len(bookings)
    THEN /\ res' = Resp(404, "Booking not found")
         /\ UNCHANGED <<cars, bookings, now, reqs, rates>>
    ELSE
    LET booking == bookings[id]
        car     == findCar(booking.car)
        doc     == [booking EXCEPT !.rating = [carRating     |-> carRating,
                                               serviceRating |-> serviceRating]]
        fail(code, message) == /\ res' = Resp(code, message)
                               /\ UNCHANGED <<cars, bookings, now, reqs, rates>>
    IN  IF booking.user # user
        THEN fail(403, "Not authorized to rate this booking")
        ELSE IF booking.status # "completed"
        THEN fail(400, "Only completed bookings can be rated")
        ELSE IF ~preSaveOk(doc) THEN fail(500, "Server error")
        ELSE IF car = NoDoc
        THEN \* the rating is saved, then booking.car.updateRating throws
             /\ bookings' = [bookings EXCEPT ![id] = preSave(doc)]
             /\ res' = Resp(500, "Server error")
             /\ UNCHANGED <<cars, now, reqs, rates>>
        ELSE /\ bookings' = [bookings EXCEPT ![id] = preSave(doc)]
             /\ cars' = [cars EXCEPT ![booking.car] = updateRating(car, carRating)]
             /\ res' = Resp(200, "Booking rated successfully")
             /\ UNCHANGED <<now, reqs, rates>>

\* rateBooking; a rating of 0 stands for a rating the body does not carry
RateBooking(user, id, carRating, serviceRating) ==
    IF carRating = 0 \/ serviceRating = 0
    THEN /\ res' = Resp(400, "Car rating and service rating are required")
         /\ UNCHANGED <<cars, bookings, now, reqs, rates>>
    ELSE IF id \notin 1 .. Len(bookings)
    THEN /\ res' = Resp(404, "Booking not found")
         /\ UNCHANGED <<cars, bookings, now, reqs, rates>>
    ELSE
    LET booking == bookings[id]
        car     == findCar(booking.car)
        doc     == [booking EXCEPT !.rating = [carRating     |-> carRating,
                                               serviceRating |-> serviceRating]]
        fail(code, message) == /\ res' = Resp(code, message)
                               /\ UNCHANGED <<cars, bookings, now, reqs, rates>>
    IN  IF booking.user # user
        THEN fail(403, "Not authorized to rate this booking")
        ELSE IF booking.status # "completed"
        THEN fail(400, "Only completed bookings can be rated")
        ELSE IF booking.rating.carRating # 0
        THEN fail(400, "Booking has already been rated")
        ELSE IF ~preSaveOk(doc) THEN fail(500, "Server error")
        ELSE IF car = NoDoc
        THEN \* the rating is saved, then booking.car.updateRating throws
             /\ bookings' = [bookings EXCEPT ![id] = preSave(doc)]
             /\ res' = Resp(500, "Server error")
             /\ UNCHANGED <<cars, now, reqs, rates>>
        ELSE /\ bookings' = [bookings EXCEPT ![id] = preSave(doc)]
             /\ cars' = [cars EXCEPT ![booking.car] = updateRating(car, carRating)]
             /\ res' = Resp(200, "Booking rated successfully")
             /\ UNCHANGED <<now, reqs, rates>>

\* rateBooking, step by step.  Its reads: Booking.findById and populate('car')
\* give the request its own copy of the booking and of the car; the checks
\* are made on the copy.
RateBookingRead(user, id, carRating, serviceRating) ==
    IF carRating = 0 \/ serviceRating = 0
    THEN /\ res' = Resp(400, "Car rating and service rating are required")
         /\ UNCHANGED <<cars, bookings, now, reqs, rates>>
    ELSE IF id \notin 1 .. Len(bookings)
    THEN /\ res' = Resp(404, "Booking not found")
         /\ UNCHANGED <<cars, bookings, now, reqs, rates>>
    ELSE
    LET booking == bookings[id]
        fail(code, message) == /\ res' = Resp(code, message)
                               /\ UNCHANGED <<cars, bookings, now, reqs, rates>>
    IN  IF booking.user # user
        THEN fail(403, "Not authorized to rate this booking")
        ELSE IF booking.status # "completed"
        THEN fail(400, "Only completed bookings can be rated")
        ELSE IF booking.rating.carRating # 0
        THEN fail(400, "Booking has already been rated")
        ELSE /\ rates' = rates (+) SetToBag({[id            |-> id,
                                              carRating     |-> carRating,
                                              serviceRating |-> serviceRating,
                                              carId         |-> booking.car,
                                              car           |-> findCar(booking.car),
                                              saved         |-> FALSE]})
             /\ UNCHANGED <<cars, bookings, now, reqs, res>>

\* rateBooking: booking.save() writes the rating, the path the request changed
RateBookingSave(request) ==
    /\ BagIn(request, rates)
    /\ ~request.saved
    /\ bookings' = [bookings EXCEPT ![request.id].rating =
                        [carRating     |-> request.carRating,
                         serviceRating |-> request.serviceRating]]
    /\ rates' = (rates (-) SetToBag({request}))
                   (+) SetToBag({[request EXCEPT !.saved = TRUE]})
    /\ UNCHANGED <<cars, now, reqs, res>>

\* rateBooking: booking.car.updateRating(carRating) computes count and average
\* on the request's copy of the car, car.save() writes them, and the
\* response is sent
RateBookingCarSave(request) ==
    /\ BagIn(request, rates)
    /\ request.saved
    /\ rates' = rates (-) SetToBag({request})
    /\ IF request.car = NoDoc \/ findCar(request.carId) = NoDoc
       THEN /\ res' = Resp(500, "Server error")
            /\ UNCHANGED cars
       ELSE /\ cars' = [cars EXCEPT ![request.carId].rating =
                           updateRating(request.car, request.carRating).rating]
            /\ res' = Resp(200, "Booking rated successfully")
    /\ UNCHANGED <<bookings, now, reqs>>

\* the answer of getBookingEstimate in the current state
EstimateResponse(carId, startDate, endDate, startTime, endTime, insuranceType) ==
    LET dateValidation == validateBookingDates(startDate, endDate, startTime, endTime)
        car == findCar(carId)
        availabilityCheck == checkCarAvailability(carId, startDate, endDate, NoBooking)
        pricing == calculateBookingPrice(car, dateValidation.duration, insuranceType)
    IN  IF startDate = NoDate \/ endDate = NoDate
        THEN Resp(400, "Missing required fields")
        ELSE IF ~dateValidation.isValid
        THEN RespErrors(400, "Invalid dates", dateValidation.errors)
        ELSE IF car = NoDoc THEN Resp(404, "Car not found")
        ELSE [code               |-> 200,
              message            |-> "",
              available          |-> availabilityCheck.isAvailable,
              availabilityReason |-> availabilityCheck.reason,
              pricing            |-> pricing,
              duration           |-> dateValidation.duration]

\* getBookingEstimate that keeps the priced request, as createBooking does
GetBookingEstimateHolding(carId, startDate, endDate, startTime, endTime, insuranceType) ==
    /\ res' = EstimateResponse(carId, startDate, endDate, startTime, endTime, insuranceType)
    /\ reqs' = IF res'.code = 200 /\ res'.available
               THEN reqs (+) SetToBag({[user      |-> "renter",
                                        car       |-> carId,
                                        startDate |-> startDate,
                                        endDate   |-> endDate,
                                        startTime |-> startTime,
                                        endTime   |-> endTime,
                                        pricing   |-> [basePrice  |-> res'.pricing.basePrice,
                                                       taxes      |-> res'.pricing.taxes,
                                                       fees       |-> res'.pricing.fees,
                                                       totalPrice |-> res'.pricing.totalPrice,
                                                       currency   |-> res'.pricing.currency],
                                        duration  |-> res'.duration,
                                        insurance |-> [type |-> insuranceType,
                                                       cost |-> res'.pricing.insuranceCost]]})
               ELSE reqs
    /\ UNCHANGED <<cars, bookings, now, rates>>

\* getBookingEstimate
GetBookingEstimate(carId, startDate, endDate, startTime, endTime, insuranceType) ==
    /\ res' = EstimateResponse(carId, startDate, endDate, startTime, endTime, insuranceType)
    /\ UNCHANGED <<cars, bookings, now, reqs, rates>>

-----------------------------------------------------------------------------
(* The car controller                                                      *)

\* updateCar
UpdateCar(user, carId, body) ==
    LET car == findCar(carId)
        fail(code, message) == /\ res' = Resp(code, message)
                               /\ UNCHANGED <<cars, bookings, now, reqs, rates>>
    IN  IF car = NoDoc THEN fail(404, "Car not found")
        ELSE IF ~isOwnerOrAdmin(user, car.owner)
        THEN fail(403, "Not authorized to update this car")
        ELSE /\ cars' = [cars EXCEPT ![carId] = Merge(car, body)]
             /\ res' = Resp(200, "Car updated successfully")
             /\ UNCHANGED <<bookings, now, reqs, rates>>

\* deleteCar
DeleteCar(user, carId) ==
    LET car == findCar(carId)
        activeBookings == {id \in 1 .. Len(bookings) :
                              /\ bookings[id].car = carId
                              /\ bookings[id].status \in {"pending", "confirmed", "active"}}
        fail(code, message) == /\ res' = Resp(code, message)
                               /\ UNCHANGED <<cars, bookings, now, reqs, rates>>
    IN  IF car = NoDoc THEN fail(404, "Car not found")
        ELSE IF ~isOwnerOrAdmin(user, car.owner)
        THEN fail(403, "Not authorized to delete this car")
        ELSE IF activeBookings # {}
        THEN fail(400, "Cannot delete car with active bookings")
        ELSE /\ cars' = [cars EXCEPT ![carId] = NoDoc]
             /\ res' = Resp(200, "Car deleted successfully")
             /\ UNCHANGED <<bookings, now, reqs, rates>>

\* Car.isAvailableForDates: the availability flag and the blackout windows
isAvailableForDates(car, startDate, endDate) ==
    /\ car.availability.isAvailable
    /\ ~\E period \in car.availability.unavailableDates :
            Overlaps(DateOf(startDate), DateOf(endDate), DateOf(period[1]), DateOf(period[2]))

\* getCarAvailability
GetCarAvailability(carId, startDate, endDate) ==
    LET car == findCar(carId)
        isAvailable == isAvailableForDates(car, startDate, endDate)
    IN  /\ res' = IF startDate = NoDate \/ endDate = NoDate
                  THEN Resp(400, "Start date and end date are required")
                  ELSE IF car = NoDoc THEN Resp(404, "Car not found")
                  ELSE [code                |-> 200,
                        message             |-> "",
                        available           |-> isAvailable,
                        conflictingBookings |->
                            conflictingBookings(carId, startDate, endDate, NoBooking)]
        /\ UNCHANGED <<cars, bookings, now, reqs, rates>>

-----------------------------------------------------------------------------
(* The requests of the model                                               *)

\* a request is taken up while the model has room for the booking it may create
Room(limit) == Len(bookings) + InFlight < limit /\ InFlight < MaxInFlight

StatusBodies    == {[status |-> s] : s \in BookingStatuses}
PartialBodies   == {[endTime |-> T1000], [endDate |-> 3]}

Reasons == {"", "plans changed"}

\* a license that is valid for every clock of the model, and a full address
GoodLicense  == [licenseNumber |-> "D1234567", licenseExpiry |-> 400]
GoodLocation == [address |-> "1 Main St", city |-> "Springfield", country |-> "US"]

Write ==
    /\ res = Idle
    /\ \E bookingData \in BagToSet(reqs) : CreateWrite(bookingData)

(* Lifecycle: every booking request and every caller, one listed car that  *)
(* stays as it is, single-day rentals from 09:00 to 10:00.                 *)

LifecycleIds == 1 .. MaxTracked

LifecycleDays == {1, 2}

Create ==
    /\ res = Idle
    /\ \E date \in LifecycleDays :
        /\ CreateCheck("renter", "car1", date, date, T0900, T1000, "basic",
                       GoodLicense, GoodLocation, GoodLocation)
        /\ (Room(MaxTracked) \/ reqs' = reqs)

Update ==
    /\ res = Idle
    /\ \E user \in Users, id \in LifecycleIds, body \in StatusBodies \cup PartialBodies :
        UpdateBooking(user, id, body)

Cancel ==
    /\ res = Idle
    /\ \E user \in Users, id \in LifecycleIds, reason \in Reasons : CancelBooking(user, id, reason)

Confirm ==
    /\ res = Idle
    /\ \E user \in Users, id \in LifecycleIds : ConfirmBooking(user, id)

Complete ==
    /\ res = Idle
    /\ \E user \in Users, id \in LifecycleIds : CompleteBooking(user, id, 120, "full")

Rate ==
    /\ res = Idle
    /\ \E user \in Users, id \in LifecycleIds, carRating \in {0, 5} :
            RateBooking(user, id, carRating, 5)

Next ==
    \/ Create
    \/ Write
    \/ Update
    \/ Cancel
    \/ Confirm
    \/ Complete
    \/ Rate
    \/ Tick
    \/ Reply

Spec == Init /\ [][Next]_vars

(* Availability: the owner changes the car's status, flag, blackout and    *)
(* maintenance windows and delists it; the renter books a rental, moves    *)
(* it, cancels it or writes any status into it; the clock stands still.    *)

Window == <<1, 1>>          \* the date range the owner blocks
CarBodies ==
    {[status |-> s] : s \in {"active", "maintenance"}}
    \cup {[availability |-> [isAvailable |-> a, unavailableDates |-> u,
                             maintenanceSchedule |-> m]] :
             a \in BOOLEAN, u \in {{}, {Window}}, m \in {{}, {Window}}}

Intervals == {<<1, 2>>, <<2, 3>>, <<3, 3>>}

AvailBodies == StatusBodies \cup {[startDate |-> i[1], endDate |-> i[2]] : i \in Intervals}

AvailCreate ==
    /\ res = Idle
    /\ \E carId \in CarIds \cup {NoCarId}, i \in Intervals :
        /\ CreateCheck("renter", carId, i[1], i[2], T0900, T1000, "basic",
                       GoodLicense, GoodLocation, GoodLocation)
        /\ (Room(MaxTracked) \/ reqs' = reqs)

AvailUpdate ==
    /\ res = Idle
    /\ \E id \in LifecycleIds, body \in AvailBodies : UpdateBooking("renter", id, body)

AvailCancel ==
    /\ res = Idle
    /\ \E id \in LifecycleIds : CancelBooking("renter", id, "")

CarUpdate ==
    /\ res = Idle
    /\ \E carId \in CarIds, body \in CarBodies : UpdateCar("owner", carId, body)

CarDelete ==
    /\ res = Idle
    /\ \E carId \in CarIds : DeleteCar("owner", carId)

NextAvail ==
    \/ AvailCreate
    \/ Write
    \/ AvailUpdate
    \/ AvailCancel
    \/ CarUpdate
    \/ CarDelete
    \/ Reply

SpecAvail == Init /\ [][NextAvail]_vars

(* Availability queries: with the owner's changes of the car and the       *)
(* renter's bookings as above, anyone asks whether the car is available.    *)

CarQuery ==
    /\ res = Idle
    /\ \E carId \in CarIds \cup {NoCarId}, i \in Intervals \cup {<<NoDate, NoDate>>} :
            GetCarAvailability(carId, i[1], i[2])

NextQuery ==
    \/ AvailCreate
    \/ Write
    \/ AvailCancel
    \/ CarUpdate
    \/ CarQuery
    \/ Reply

SpecQuery == Init /\ [][NextQuery]_vars

(* Competition: several renters' requests for the one car are in flight    *)
(* at once; rentals are cancelled or closed; the car stays as it is.       *)

BookingIds == 1 .. MaxBookings

RaceIntervals == {<<1, 2>>, <<2, 3>>, <<3, 3>>}

RaceBodies == {[status |-> s] : s \in {"confirmed", "active", "completed", "no-show"}}

RaceCreate ==
    /\ res = Idle
    /\ \E i \in RaceIntervals :
        /\ CreateCheck("renter", "car1", i[1], i[2], T0900, T1000, "basic",
                       GoodLicense, GoodLocation, GoodLocation)
        /\ (Room(MaxBookings) \/ reqs' = reqs)

RaceUpdate ==
    /\ res = Idle
    /\ \E id \in BookingIds, body \in RaceBodies : UpdateBooking("renter", id, body)

RaceCancel ==
    /\ res = Idle
    /\ \E id \in BookingIds : CancelBooking("renter", id, "")

NextRace ==
    \/ RaceCreate
    \/ Write
    \/ RaceUpdate
    \/ RaceCancel
    \/ Reply

SpecRace == Init /\ [][NextRace]_vars

(* Ratings: rentals of the one car are started, completed by the owner     *)
(* and rated by the renter.                                                *)

CarRatings == {4, 5}

RatingCreate ==
    /\ res = Idle
    /\ \E date \in {1, 3} :
        /\ CreateCheck("renter", "car1", date, date, T0900, T1000, "basic",
                       GoodLicense, GoodLocation, GoodLocation)
        /\ (Room(MaxBookings) \/ reqs' = reqs)

RatingStart ==
    /\ res = Idle
    /\ \E id \in BookingIds : UpdateBooking("renter", id, [status |-> "active"])

RatingComplete ==
    /\ res = Idle
    /\ \E id \in BookingIds : CompleteBooking("owner", id, 120, "full")

RatingRate ==
    /\ res = Idle
    /\ \E id \in BookingIds, carRating \in CarRatings : RateBooking("renter", id, carRating, 5)

NextRating ==
    \/ RatingCreate
    \/ Write
    \/ RatingStart
    \/ RatingComplete
    \/ RatingRate
    \/ Reply

SpecRating == Init /\ [][NextRating]_vars

(* Prices: the car is listed with one of two rate cards; the renter books  *)
(* rentals of an hour to 30 days at each insurance tier, and sends         *)
(* requests with an ill-formed interval, license or location.              *)

\* a rate card in odd cents, without a weekly rate
OddCard == [hourly |-> 799, daily |-> 4185, weekly |-> 0, currency |-> "EUR"]

\* the rate cards the price is asked for
RateCards == {Car0.pricing, OddCard}

\* start date, end date, start time, end time of the rentals priced
PriceIntervals ==
    {<<2, 2, T0900, T1000>>, <<2, 2, T0900, T1200>>, <<2, 3, T0900, T0900>>,
     <<2, 3, T0900, T1000>>, <<2, 9, T0900, T0900>>, <<2, 9, T0900, T1000>>,
     <<2, 32, T0900, T0900>>}

InitPrice ==
    /\ \E card \in RateCards : cars = [c \in CarIds |-> [Car0 EXCEPT !.pricing = card]]
    /\ bookings = <<>>
    /\ now = Now0
    /\ reqs = EmptyBag
    /\ res = Idle
    /\ rates = EmptyBag

PriceCreate ==
    /\ res = Idle
    /\ \E i \in PriceIntervals, insuranceType \in InsuranceTypes :
        /\ CreateCheck("renter", "car1", i[1], i[2], i[3], i[4], insuranceType,
                       GoodLicense, GoodLocation, GoodLocation)
        /\ (Room(MaxTracked) \/ reqs' = reqs)

\* the licenses and locations of the requests: well-formed, empty, and a
\* license that expires within 30 days
Licenses ==
    {GoodLicense, [licenseNumber |-> "", licenseExpiry |-> NoDate],
     [licenseNumber |-> "D1234567", licenseExpiry |-> 10]}
PickupLocations ==
    {GoodLocation, [address |-> "", city |-> "", country |-> "US"]}
DropoffLocations ==
    {GoodLocation, [address |-> "1 Main St", city |-> "", country |-> ""], NoDoc}
RequestEndTimes == {T0959, T1000}

IllFormedCreate ==
    /\ res = Idle
    /\ \E endTime \in RequestEndTimes, driverDetails \in Licenses,
          pickupLocation \in PickupLocations, dropoffLocation \in DropoffLocations :
        /\ CreateCheck("renter", "car1", 2, 2, T0900, endTime, "basic",
                       driverDetails, pickupLocation, dropoffLocation)
        /\ (Room(MaxTracked) \/ reqs' = reqs)

NextPrice ==
    \/ PriceCreate
    \/ IllFormedCreate
    \/ Write
    \/ Reply

SpecPrice == InitPrice /\ [][NextPrice]_vars

(* Estimates: anyone asks for the price and availability of a rental of    *)
(* the car, listed with one of two rate cards; renters book morning and     *)
(* afternoon rentals, move them and cancel them; the clock advances.        *)

\* start date, end date, start time, end time
EstimateIntervals ==
    {<<2, 2, T0900, T1100>>, <<2, 2, T1400, T1600>>, <<3, 3, T0900, T1100>>}

\* what an estimate is asked for: the rentals above, one of two days, one
\* that is too short, one without dates
EstimateInputs ==
    EstimateIntervals
    \cup {<<2, 3, T0900, T1100>>, <<2, 2, T0900, T0959>>, <<NoDate, NoDate, T0900, T1100>>}

EstimateBodies ==
    {[startDate |-> i[1], endDate |-> i[2], startTime |-> i[3], endTime |-> i[4]] :
        i \in EstimateIntervals}

EstimateCreate ==
    /\ res = Idle
    /\ \E i \in EstimateIntervals :
        /\ CreateCheck("renter", "car1", i[1], i[2], i[3], i[4], "basic",
                       GoodLicense, GoodLocation, GoodLocation)
        /\ (Room(MaxTracked) \/ reqs' = reqs)

EstimateUpdate ==
    /\ res = Idle
    /\ \E id \in LifecycleIds, body \in EstimateBodies : UpdateBooking("renter", id, body)

EstimateCancel ==
    /\ res = Idle
    /\ \E id \in LifecycleIds : CancelBooking("renter", id, "")

Estimate ==
    /\ res = Idle
    /\ \E carId \in CarIds \cup {NoCarId}, i \in EstimateInputs, insuranceType \in InsuranceTypes :
            GetBookingEstimate(carId, i[1], i[2], i[3], i[4], insuranceType)

NextEstimate ==
    \/ EstimateCreate
    \/ Write
    \/ EstimateUpdate
    \/ EstimateCancel
    \/ Estimate
    \/ Tick
    \/ Reply

SpecEstimate == InitPrice /\ [][NextEstimate]_vars

(* Fields: the renter sends Update bodies that name the fields of the      *)
(* stored document; the owner confirms and completes; the renter cancels   *)
(* and rates; the car and the clock stay as they are.                      *)

FieldDuration == [hours |-> 48, days |-> 2]     \* a duration sent in a body

FieldBodies ==
    {[user |-> "owner"], [car |-> NoCarId], [duration |-> FieldDuration],
     [status |-> "active"],
     [startDate |-> 2, endDate |-> 3],
     [startDate |-> 3, endDate |-> 3, startTime |-> T0900, endTime |-> T1000],
     [startDate |-> 2, endDate |-> 2, startTime |-> T0900, endTime |-> T0959],
     [startDate |-> 3, endDate |-> 2],
     [startDate |-> 2, endDate |-> 32, startTime |-> T0900, endTime |-> T0900],
     [startDate |-> 2, endDate |-> 32, startTime |-> T0900, endTime |-> T1000],
     [endTime |-> T0959]}

FieldCreate ==
    /\ res = Idle
    /\ \E endTime \in {T0959, T1200} :
        /\ CreateCheck("renter", "car1", 2, 2, T0900, endTime, "basic",
                       GoodLicense, GoodLocation, GoodLocation)
        /\ (Room(MaxTracked) \/ reqs' = reqs)

FieldUpdate ==
    /\ res = Idle
    /\ \E id \in LifecycleIds, body \in FieldBodies : UpdateBooking("renter", id, body)

FieldCancel ==
    /\ res = Idle
    /\ \E id \in LifecycleIds : CancelBooking("renter", id, "")

FieldConfirm ==
    /\ res = Idle
    /\ \E id \in LifecycleIds : ConfirmBooking("owner", id)

FieldComplete ==
    /\ res = Idle
    /\ \E id \in LifecycleIds : CompleteBooking("owner", id, 120, "full")

FieldRate ==
    /\ res = Idle
    /\ \E id \in LifecycleIds : RateBooking("renter", id, 4, 5)

NextFields ==
    \/ FieldCreate
    \/ Write
    \/ FieldUpdate
    \/ FieldCancel
    \/ FieldConfirm
    \/ FieldComplete
    \/ FieldRate
    \/ Reply

SpecFields == Init /\ [][NextFields]_vars

(* One request at a time: a request is taken up only when no other is     *)
(* between its availability check and its write.  Renters book rentals of   *)
(* the car, move them, write a status into them, cancel and rate them; the  *)
(* owner confirms and completes them.                                       *)

SeqBodies ==
    {[status |-> status] : status \in {"confirmed", "active", "no-show"}}
    \cup {[startDate |-> i[1], endDate |-> i[2], startTime |-> T0900, endTime |-> T1000] :
             i \in Intervals}

SeqCreate ==
    /\ res = Idle
    /\ reqs = EmptyBag
    /\ \E i \in Intervals :
        /\ CreateCheck("renter", "car1", i[1], i[2], T0900, T1000, "basic",
                       GoodLicense, GoodLocation, GoodLocation)
        /\ (Room(MaxBookings) \/ reqs' = reqs)

SeqUpdate ==
    /\ res = Idle
    /\ reqs = EmptyBag
    /\ \E id \in BookingIds, body \in SeqBodies : UpdateBooking("renter", id, body)

SeqCancel ==
    /\ res = Idle
    /\ reqs = EmptyBag
    /\ \E id \in BookingIds : CancelBooking("renter", id, "")

SeqConfirm ==
    /\ res = Idle
    /\ reqs = EmptyBag
    /\ \E id \in BookingIds : ConfirmBooking("owner", id)

SeqComplete ==
    /\ res = Idle
    /\ reqs = EmptyBag
    /\ \E id \in BookingIds : CompleteBooking("owner", id, 120, "full")

SeqRate ==
    /\ res = Idle
    /\ reqs = EmptyBag
    /\ \E id \in BookingIds : RateBooking("renter", id, 5, 5)

NextSeq ==
    \/ SeqCreate
    \/ Write
    \/ SeqUpdate
    \/ SeqCancel
    \/ SeqConfirm
    \/ SeqComplete
    \/ SeqRate
    \/ Reply

SpecSeq == Init /\ [][NextSeq]_vars

(* Hours of the day: several renters book the morning and afternoon        *)
(* rentals above, move them and cancel them, and ask for estimates.         *)

\* an afternoon of four hours
LongAfternoon == <<2, 2, T1200, T1600>>

HoursCreate ==
    /\ res = Idle
    /\ \E i \in EstimateIntervals :
        /\ CreateCheck("renter", "car1", i[1], i[2], i[3], i[4], "basic",
                       GoodLicense, GoodLocation, GoodLocation)
        /\ (Room(MaxBookings) \/ reqs' = reqs)

HoursUpdate ==
    /\ res = Idle
    /\ \E id \in BookingIds, body \in EstimateBodies : UpdateBooking("renter", id, body)

HoursCancel ==
    /\ res = Idle
    /\ \E id \in BookingIds : CancelBooking("renter", id, "")

HoursEstimate ==
    /\ res = Idle
    /\ \E i \in EstimateIntervals \cup {LongAfternoon} :
            GetBookingEstimate("car1", i[1], i[2], i[3], i[4], "basic")

NextHours ==
    \/ HoursCreate
    \/ Write
    \/ HoursUpdate
    \/ HoursCancel
    \/ HoursEstimate
    \/ Reply

SpecHours == Init /\ [][NextHours]_vars

(* Concurrent ratings: rentals of the car are started and completed, and   *)
(* the renter's Rate requests are handled side by side, each between its    *)
(* reads and its writes while others read and write.                        *)

ConcurrentRateRead ==
    /\ res = Idle
    /\ BagCardinality(rates) < MaxInFlight
    /\ \E id \in BookingIds, carRating \in CarRatings :
            RateBookingRead("renter", id, carRating, 5)

ConcurrentRateSave ==
    /\ res = Idle
    /\ \E request \in BagToSet(rates) : RateBookingSave(request)

ConcurrentRateCarSave ==
    /\ res = Idle
    /\ \E request \in BagToSet(rates) : RateBookingCarSave(request)

NextConcurrentRate ==
    \/ RatingCreate
    \/ Write
    \/ RatingStart
    \/ RatingComplete
    \/ ConcurrentRateRead
    \/ ConcurrentRateSave
    \/ ConcurrentRateCarSave
    \/ Reply

SpecConcurrentRate == Init /\ [][NextConcurrentRate]_vars

(* Store failures: the renter books rentals, moves them and cancels them;   *)
(* the record store may fail during the availability check of a request.    *)

\* start date, end date, start time, end time
StoreIntervals ==
    {<<2, 2, T0900, T1000>>, <<2, 3, T0900, T1000>>, <<3, 3, T0900, T0959>>}

StoreBodies ==
    {[startDate |-> i[1], endDate |-> i[2], startTime |-> i[3], endTime |-> i[4]] :
        i \in StoreIntervals}

StoreCreate ==
    /\ res = Idle
    /\ \E i \in StoreIntervals :
        /\ CreateCheck("renter", "car1", i[1], i[2], i[3], i[4], "basic",
                       GoodLicense, GoodLocation, GoodLocation)
        /\ (Room(MaxBookings) \/ reqs' = reqs)

StoreUpdate ==
    /\ res = Idle
    /\ \E id \in BookingIds, body \in StoreBodies : UpdateBooking("renter", id, body)

StoreCancel ==
    /\ res = Idle
    /\ \E id \in BookingIds : CancelBooking("renter", id, "")

CreateStoreDown ==
    /\ res = Idle
    /\ \E i \in StoreIntervals :
            CreateBookingStoreDown("renter", "car1", i[1], i[2], i[3], i[4])

UpdateStoreDown ==
    /\ res = Idle
    /\ \E user \in {"renter", "owner"}, id \in BookingIds, body \in StoreBodies :
            UpdateBookingStoreDown(user, id, body)

NextStore ==
    \/ StoreCreate
    \/ Write
    \/ StoreUpdate
    \/ StoreCancel
    \/ CreateStoreDown
    \/ UpdateStoreDown
    \/ Reply

SpecStore == Init /\ [][NextStore]_vars

(* Rate cards: the owner replaces the car's rate card; the renter books a   *)
(* rental, moves it, and sends Update bodies that name the price, the       *)
(* insurance or the duration of the stored document.                        *)

CardBodies ==
    {[startDate |-> 2, endDate |-> 3, startTime |-> T0900, endTime |-> T1000],
     [startDate |-> 3, endDate |-> 3, startTime |-> T0900, endTime |-> T1000],
     [pricing |-> [basePrice |-> 100, taxes |-> 0, fees |-> 0, totalPrice |-> 100,
                   currency |-> "INR"]],
     [insurance |-> [type |-> "premium", cost |-> 0]],
     [duration |-> FieldDuration],
     [status |-> "confirmed"]}

CardCreate ==
    /\ res = Idle
    /\ \E insuranceType \in {"basic", "comprehensive"} :
        /\ CreateCheck("renter", "car1", 2, 2, T0900, T1000, insuranceType,
                       GoodLicense, GoodLocation, GoodLocation)
        /\ (Room(MaxTracked) \/ reqs' = reqs)

CardUpdate ==
    /\ res = Idle
    /\ \E id \in LifecycleIds, body \in CardBodies : UpdateBooking("renter", id, body)

RateCardUpdate ==
    /\ res = Idle
    /\ \E carId \in CarIds, card \in RateCards : UpdateCar("owner", carId, [pricing |-> card])

NextCard ==
    \/ CardCreate
    \/ Write
    \/ CardUpdate
    \/ RateCardUpdate
    \/ Reply

SpecCard == Init /\ [][NextCard]_vars

-----------------------------------------------------------------------------
(* Properties                                                              *)

StoredIds == 1 .. Len(bookings)

\* the status changes of the lifecycle
Forward == {<<"pending", "confirmed">>, <<"confirmed", "active">>, <<"active", "completed">>,
            <<"pending", "cancelled">>, <<"confirmed", "cancelled">>}

\* C1: every status change of a booking is pending -> confirmed -> active ->
\* completed, one step at a time, or pending/confirmed -> cancelled; nothing
\* moves a booking backward, past a status, or out of completed or cancelled.
C1_StatusMovesForward ==
    [][\A id \in StoredIds :
          bookings'[id].status # bookings[id].status
              => <<bookings[id].status, bookings'[id].status>> \in Forward]_vars

Hours(n) == n * MinutesPerHour

\* the caller is the renting user of the booking, or an admin
RenterOrAdmin(user, id) == bookings[id].user = user \/ role(user) = "admin"

\* C7: Cancel succeeds exactly when the caller is the renting user or an admin
\* and the booking is pending, or confirmed with more than 24 hours left until
\* its start; every other Cancel is rejected and leaves the booking as it was.
C7_CancelEligibility ==
    [][\A user \in Users, id \in StoredIds, reason \in Reasons :
          CancelBooking(user, id, reason) =>
              LET booking  == bookings[id]
                  eligible == /\ RenterOrAdmin(user, id)
                              /\ \/ booking.status = "pending"
                                 \/ /\ booking.status = "confirmed"
                                    /\ untilStart(booking) > Hours(24)
              IN  /\ eligible => res'.code = 200 /\ bookings'[id].status = "cancelled"
                  /\ ~eligible => res'.code # 200 /\ bookings' = bookings]_vars

\* C7 witness: the Cancel of a confirmed booking with 24 hours or less left
\* has just been rejected
C7_Witness ==
    /\ res.message = "Booking cannot be cancelled at this time"
    /\ \E id \in StoredIds : /\ bookings[id].status = "confirmed"
                             /\ untilStart(bookings[id]) <= Hours(24)
                             /\ untilStart(bookings[id]) > 0

\* C8: a successful Cancel records 100% of the total price as the refund when
\* at least 48 hours are left until the start, 50% when at least 24 and fewer
\* than 48, nothing when fewer than 24; the booking becomes cancelled and the
\* reason, the caller and the time are recorded with it.
C8_RefundTiers ==
    [][\A user \in Users, id \in StoredIds, reason \in Reasons :
          CancelBooking(user, id, reason) /\ res'.code = 200 =>
              LET left   == untilStart(bookings[id])
                  total  == bookings[id].pricing.totalPrice
                  record == bookings'[id].cancellation
                  refund == record.refundAmount
                  percent == IF left >= Hours(48) THEN 100
                             ELSE IF left >= Hours(24) THEN 50 ELSE 0
              IN  /\ bookings'[id].status = "cancelled"
                  /\ refund.num * 100 = percent * total * refund.den
                  /\ record.reason = (IF reason = "" THEN "Cancelled by user" ELSE reason)
                  /\ record.cancelledBy = user
                  /\ record.cancelledAt = now]_vars

\* C8 witness: a booking cancelled between 24 and 48 hours before its start,
\* with half its price as the refund
C8_Witness ==
    /\ res.message = "Booking cancelled successfully"
    /\ \E id \in StoredIds :
          LET booking == bookings[id]
          IN  /\ booking.status = "cancelled"
              /\ booking.cancellation.cancelledAt = now
              /\ untilStart(booking) >= Hours(24) /\ untilStart(booking) < Hours(48)
              /\ booking.cancellation.refundAmount.num > 0
              /\ booking.cancellation.refundAmount.num * 2
                    = booking.pricing.totalPrice * booking.cancellation.refundAmount.den

LifecycleBodies == StatusBodies \cup PartialBodies

\* C9: Update changes a booking only for the renting user or an admin and only
\* while the booking is pending or confirmed; in every other status (active,
\* completed, cancelled, no-show) the request fails and changes nothing.
C9_UpdateOnlyPendingOrConfirmed ==
    [][\A user \in Users, id \in StoredIds, body \in LifecycleBodies :
          UpdateBooking(user, id, body) =>
              LET permitted == /\ RenterOrAdmin(user, id)
                               /\ bookings[id].status \in {"pending", "confirmed"}
              IN  ~permitted => res'.code # 200 /\ bookings' = bookings]_vars

\* a request of the lifecycle specification made by the user on the booking
LifecycleRequest(user, id) ==
    \/ \E body \in LifecycleBodies : UpdateBooking(user, id, body)
    \/ \E reason \in Reasons : CancelBooking(user, id, reason)
    \/ ConfirmBooking(user, id)
    \/ CompleteBooking(user, id, 120, "full")
    \/ \E carRating \in {0, 5} : RateBooking(user, id, carRating, 5)

\* C10: a booking becomes confirmed only through a Confirm of the car's owner
\* or an admin on a pending booking; no request of the renting user, who is
\* neither the owner nor an admin, makes their booking confirmed.
C10_ConfirmedOnlyByOwnerOrAdmin ==
    [][\A id \in StoredIds :
          LET booking == bookings[id]
              owner   == findCar(booking.car).owner
              becomesConfirmed == /\ booking.status # "confirmed"
                                  /\ bookings'[id].status = "confirmed"
          IN  /\ becomesConfirmed =>
                    /\ booking.status = "pending"
                    /\ \E user \in Users : /\ isOwnerOrAdmin(user, owner)
                                           /\ ConfirmBooking(user, id)
              /\ ~isOwnerOrAdmin(booking.user, owner) /\ LifecycleRequest(booking.user, id)
                    => ~becomesConfirmed]_vars

-----------------------------------------------------------------------------
(* Properties of the availability check                                    *)

\* two date ranges share a day, end points included
DaysMeet(startDate, endDate, otherStart, otherEnd) ==
    startDate <= otherEnd /\ endDate >= otherStart

\* the bookings of the car, other than the excluded one, that hold the car for
\* a day of the range
HoldingBookings(carId, startDate, endDate, excludeBookingId) ==
    {id \in StoredIds :
        /\ id # excludeBookingId
        /\ bookings[id].car = carId
        /\ bookings[id].status \in {"pending", "confirmed", "active"}
        /\ DaysMeet(startDate, endDate, bookings[id].startDate, bookings[id].endDate)}

CarExists(carId) == carId \in DOMAIN cars /\ cars[carId] # NoDoc

InBlackout(carId, startDate, endDate) ==
    \E period \in cars[carId].availability.unavailableDates :
        DaysMeet(startDate, endDate, period[1], period[2])

InMaintenance(carId, startDate, endDate) ==
    \E period \in cars[carId].availability.maintenanceSchedule :
        DaysMeet(startDate, endDate, period[1], period[2])

Excludable == {NoBooking} \cup StoredIds

\* C2: the write of a request that passed the availability check stores its
\* pending booking whatever was stored since the check, so that two requests
\* for overlapping ranges of one car, both checked before either is written,
\* leave two pending bookings that overlap.
C2_WriteAfterCheckIsUnconditional ==
    [][\A bookingData \in BagToSet(reqs) :
          CreateWrite(bookingData) =>
              /\ Len(bookings') = Len(bookings) + 1
              /\ LET stored == bookings'[Len(bookings')]
                 IN  /\ stored.status = "pending"
                     /\ stored.car = bookingData.car
                     /\ stored.startDate = bookingData.startDate
                     /\ stored.endDate = bookingData.endDate]_vars

\* C2 witness: two pending bookings of one car on overlapping ranges, the
\* second one just written
C2_Witness ==
    /\ res.message = "Booking created successfully"
    /\ \E i \in StoredIds, j \in StoredIds :
          /\ i < j
          /\ bookings[i].car = bookings[j].car
          /\ bookings[i].status = "pending" /\ bookings[j].status = "pending"
          /\ DaysMeet(bookings[i].startDate, bookings[i].endDate,
                      bookings[j].startDate, bookings[j].endDate)

\* C3: the check answers "available" only if the car exists, its status is
\* active, its availability flag is set, and the range meets no blackout
\* window, no maintenance window and no other pending, confirmed or active
\* booking of the car.
C3_AvailableOnlyIf ==
    \A carId \in CarIds \cup {NoCarId}, startDate \in Days, endDate \in Days,
       excludeBookingId \in Excludable :
        checkCarAvailability(carId, startDate, endDate, excludeBookingId).isAvailable =>
            /\ CarExists(carId)
            /\ cars[carId].status = "active"
            /\ cars[carId].availability.isAvailable
            /\ ~InBlackout(carId, startDate, endDate)
            /\ ~InMaintenance(carId, startDate, endDate)
            /\ HoldingBookings(carId, startDate, endDate, excludeBookingId) = {}

\* C3 witness: a rental of days 2-3 was accepted for a car whose blackout and
\* maintenance windows both end on day 1
C3_Witness ==
    /\ res.message = "Booking created successfully"
    /\ CarExists("car1")
    /\ cars["car1"].availability.unavailableDates = {Window}
    /\ cars["car1"].availability.maintenanceSchedule = {Window}
    /\ \E id \in StoredIds : /\ bookings[id].status = "pending"
                             /\ bookings[id].startDate = 2

\* C4: the overlap test includes both end points: for a car that is listed,
\* active and flagged available, a range is refused exactly when it shares a
\* day with a blackout window, a maintenance window or a holding booking, a
\* range that starts on the last day of a window included, a range that starts
\* the day after not; a blackout of days 10-15 refuses 14-16 and admits 16-20.
C4_OverlapIsInclusive ==
    /\ \A carId \in CarIds, startDate \in Days, endDate \in Days,
          excludeBookingId \in Excludable :
          (/\ CarExists(carId)
           /\ cars[carId].status = "active"
           /\ cars[carId].availability.isAvailable)
          => (checkCarAvailability(carId, startDate, endDate, excludeBookingId).isAvailable
                <=> ~(\/ InBlackout(carId, startDate, endDate)
                      \/ InMaintenance(carId, startDate, endDate)
                      \/ HoldingBookings(carId, startDate, endDate, excludeBookingId) # {}))
    /\ Overlaps(DateOf(14), DateOf(16), DateOf(10), DateOf(15))
    /\ ~Overlaps(DateOf(16), DateOf(20), DateOf(10), DateOf(15))
    /\ Overlaps(DateOf(15), DateOf(20), DateOf(10), DateOf(15))

\* C4 witness: a rental that starts on the last day of the blackout window has
\* just been refused
C4_Witness ==
    /\ res.message = "Car is not available for the selected dates"
    /\ CarExists("car1")
    /\ cars["car1"].availability.unavailableDates = {Window}

\* C5: the reason reported is that of the first check that fails, in the order
\* car exists, car status active, availability flag, blackout, maintenance,
\* bookings.
C5_FirstFailingCheckIsReported ==
    \A carId \in CarIds \cup {NoCarId}, startDate \in Days, endDate \in Days,
       excludeBookingId \in Excludable :
        LET reason == checkCarAvailability(carId, startDate, endDate, excludeBookingId).reason
        IN  IF ~CarExists(carId) THEN reason = "Car not found"
            ELSE IF cars[carId].status # "active"
                 THEN reason = "Car is currently " \o cars[carId].status
            ELSE IF ~cars[carId].availability.isAvailable
                 THEN reason = "Car is not available for booking"
            ELSE IF InBlackout(carId, startDate, endDate)
                 THEN reason = "Car is not available for the selected dates"
            ELSE IF InMaintenance(carId, startDate, endDate)
                 THEN reason = "Car is scheduled for maintenance during the selected dates"
            ELSE IF HoldingBookings(carId, startDate, endDate, excludeBookingId) # {}
                 THEN reason = "Car is already booked for the selected dates"
            ELSE reason = ""

\* C5 witness: a request has been refused because the car is in maintenance,
\* while a pending booking holds the car on every day a request can name
C5_Witness ==
    /\ res.message = "Car is currently maintenance"
    /\ cars["car1"].status = "maintenance"
    /\ \E id \in StoredIds : /\ bookings[id].status = "pending"
                             /\ bookings[id].car = "car1"
                             /\ bookings[id].startDate = 2 /\ bookings[id].endDate = 3

ClosedStatuses == {"completed", "cancelled", "no-show"}

\* C6: a completed, cancelled or no-show booking never counts as a conflict: a
\* range whose only bookings on the car are closed ones is not refused as
\* already booked, and no closed booking is listed among the conflicts.
C6_ClosedBookingsNeverConflict ==
    \A carId \in CarIds, startDate \in Days, endDate \in Days, excludeBookingId \in Excludable :
        LET check == checkCarAvailability(carId, startDate, endDate, excludeBookingId)
            closed == {id \in StoredIds : bookings[id].status \in ClosedStatuses}
            others == {id \in StoredIds \ {excludeBookingId} :
                          /\ bookings[id].car = carId
                          /\ DaysMeet(startDate, endDate,
                                      bookings[id].startDate, bookings[id].endDate)}
        IN  /\ check.conflictingBookings \cap closed = {}
            /\ others \subseteq closed
                  => check.reason # "Car is already booked for the selected dates"

\* C6 witness: a booking was cancelled and a later booking of the same car and
\* the same range has been created
C6_Witness ==
    /\ res.message = "Booking created successfully"
    /\ \E i \in StoredIds, j \in StoredIds :
          /\ i < j
          /\ bookings[i].status = "cancelled"
          /\ bookings[i].cancellation.cancelledBy = "renter"
          /\ bookings[j].status = "pending"
          /\ bookings[j].car = bookings[i].car
          /\ bookings[j].startDate = bookings[i].startDate
          /\ bookings[j].endDate = bookings[i].endDate
          /\ \A k \in StoredIds \ {i, j} : bookings[k].status \in ClosedStatuses

-----------------------------------------------------------------------------
(* Properties of Update                                                    *)

\* C11: no step changes the renting-user reference or the car reference of a
\* stored booking.
C11_ReferencesNeverChange ==
    [][\A id \in StoredIds :
          /\ bookings'[id].user = bookings[id].user
          /\ bookings'[id].car = bookings[id].car]_vars

\* the interval a stored booking has
IntervalOf(booking) ==
    <<booking.startDate, booking.endDate, booking.startTime, booking.endTime>>

\* the price fields of a booking as calculateBookingPrice gives them for a
\* duration and an insurance tier
PricedAs(booking, car, duration, insuranceType) ==
    LET pricing == calculateBookingPrice(car, duration, insuranceType)
    IN  /\ booking.pricing = [basePrice  |-> pricing.basePrice,
                              taxes      |-> pricing.taxes,
                              fees       |-> pricing.fees,
                              totalPrice |-> pricing.totalPrice,
                              currency   |-> pricing.currency]
        /\ booking.insurance = [type |-> insuranceType, cost |-> pricing.insuranceCost]

\* an Update that names an interval field and writes: the interval written is
\* valid, the car is free for it with the booking left out of the search, and
\* the price is the one of the new duration at the tier the booking had
RevalidatedWrite(id) ==
    LET old == bookings[id]
        new == bookings'[id]
        dateValidation == validateBookingDates(new.startDate, new.endDate,
                                               new.startTime, new.endTime)
    IN  /\ dateValidation.isValid
        /\ checkCarAvailability(old.car, new.startDate, new.endDate, id).isAvailable
        /\ new.duration = dateValidation.duration
        /\ PricedAs(new, findCar(old.car), dateValidation.duration, old.insurance.type)

\* C12: an Update that names any of start date, end date, start time, end time
\* writes the booking only with a valid interval for which the car is free,
\* the booking itself excluded, and with the price recomputed from the new
\* duration at the booking's insurance tier; an Update that names none of the
\* four leaves the booking's interval and duration as they were.
C12_IntervalUpdateRevalidates ==
    [][\A id \in StoredIds, body \in FieldBodies :
          UpdateBooking("renter", id, body) =>
              IF DOMAIN body \cap IntervalFields # {}
              THEN bookings'[id] # bookings[id] => RevalidatedWrite(id)
              ELSE /\ IntervalOf(bookings'[id]) = IntervalOf(bookings[id])
                   /\ bookings'[id].duration = bookings[id].duration]_vars

\* the length of a booking's interval, in minutes
Length(booking) ==
    Instant(booking.endDate, booking.endTime) - Instant(booking.startDate, booking.startTime)

\* C13: the end instant of every stored booking exceeds its start instant by
\* at least one hour and at most 30 days.
C13_LengthWithinBounds ==
    \A id \in StoredIds :
        /\ Length(bookings[id]) >= Hours(1)
        /\ Length(bookings[id]) <= 30 * MinutesPerDay

\* C13 witness: an Update has moved the interval of a booking to one of
\* exactly 30 days
C13_Witness ==
    /\ res.message = "Booking updated successfully"
    /\ \E id \in StoredIds : Length(bookings[id]) = 30 * MinutesPerDay

-----------------------------------------------------------------------------
(* Properties of the interval validator                                    *)

\* the intervals the validator is asked about: starts at, before and after
\* the clock, lengths around one hour and around 30 days
ValidatorIntervals ==
    {<<startDate, endDate, startTime, endTime>> :
        startDate \in {0, 1}, endDate \in {0, 1, 30, 31},
        startTime \in {T0900, T1000}, endTime \in {T0900, T0959, T1000, T1000 + 1}}

\* C14: for a start strictly in the future the validator accepts exactly the
\* intervals of at least 1 hour and at most 30 x 24 hours; 1 hour and 30 x 24
\* hours are accepted, 59 minutes and 30 x 24 hours and a minute are refused.
C14_ValidatorBounds ==
    /\ \A i \in ValidatorIntervals :
          LET minutes == Instant(i[2], i[4]) - Instant(i[1], i[3])
          IN  Instant(i[1], i[3]) > now =>
                 (validateBookingDates(i[1], i[2], i[3], i[4]).isValid
                    <=> minutes >= Hours(1) /\ minutes <= Hours(30 * 24))
    /\ validateBookingDates(2, 2, T0900, T1000).isValid
    /\ ~validateBookingDates(2, 2, T0900, T0959).isValid
    /\ validateBookingDates(2, 32, T0900, T0900).isValid
    /\ ~validateBookingDates(2, 32, T0900, T0900 + 1).isValid

\* C14 witness: a rental of 59 minutes has been refused while a rental of
\* exactly one hour is stored
C14_Witness ==
    /\ res.message = "Invalid booking dates"
    /\ \E id \in StoredIds : Length(bookings[id]) = Hours(1)

-----------------------------------------------------------------------------
(* Properties of the price                                                 *)

\* C15: a rental of less than one day that Create has priced from the
\* validated duration is billed by the hour: the base price is hours x the
\* hourly rate and the fee is 10.00; 3 hours at 10.00 an hour with basic
\* insurance are base 30.00, insurance 1.50, taxes 3.15, fee 10.00, total 44.65.
C15_ShortRentalBilledHourly ==
    \A bookingData \in BagToSet(reqs) :
        Length(bookingData) < MinutesPerDay =>
            /\ bookingData.pricing.basePrice
                  = bookingData.duration.hours * findCar(bookingData.car).pricing.hourly
            /\ bookingData.pricing.fees = 1000
            /\ (/\ Length(bookingData) = Hours(3)
                /\ bookingData.insurance.type = "basic"
                /\ findCar(bookingData.car).pricing.hourly = 1000
                    => /\ bookingData.pricing.basePrice = 3000
                       /\ bookingData.insurance.cost = 150
                       /\ bookingData.pricing.taxes = 315
                       /\ bookingData.pricing.totalPrice = 4465)

\* the durations the price is asked for
DurationHours == {1, 3, 24, 25, 49, 168, 169, 720}
DurationDays  == {0, 1, 2, 3, 6, 7, 8, 30}

\* the base price of the three tiers
TierBase(card, hours, days) ==
    IF days >= 7
    THEN Ceil(days, 7) * (IF card.weekly # 0 THEN card.weekly ELSE 7 * card.daily)
    ELSE IF days >= 1
    THEN days * card.daily + (hours % 24) * card.hourly
    ELSE hours * card.hourly

\* C16: the base price has three tiers on the duration (hours, days) the
\* validator returns: days >= 7, ceil(days / 7) weeks at the weekly rate, or at
\* 7 x the daily rate for a card without a weekly rate; 1 <= days < 7, days at
\* the daily rate plus hours mod 24 at the hourly rate; else hours at the
\* hourly rate.  A rental of 25 hours counts 2 days.
C16_BasePriceTiers ==
    /\ \A card \in RateCards, hours \in DurationHours, days \in DurationDays :
          calculateBookingPrice([pricing |-> card], [hours |-> hours, days |-> days],
                                "basic").basePrice
             = TierBase(card, hours, days)
    /\ \A bookingData \in BagToSet(reqs) :
          /\ bookingData.duration.days = Ceil(Length(bookingData), MinutesPerDay)
          /\ bookingData.pricing.basePrice
                = TierBase(findCar(bookingData.car).pricing,
                           bookingData.duration.hours, bookingData.duration.days)

\* C16 witness: a rental of 25 hours is being created, billed as 2 days and 1 hour
C16_Witness ==
    \E bookingData \in BagToSet(reqs) :
        /\ Length(bookingData) = Hours(25)
        /\ bookingData.duration = [hours |-> 25, days |-> 2]
        /\ bookingData.pricing.basePrice = 2 * 10000 + 1000

\* the durations and tiers the breakdown is asked for
BreakdownDurations ==
    {[hours |-> hours, days |-> days] : hours \in {1, 24, 25, 168}, days \in {0, 1, 7}}

\* the tier rates, in per cent
TierRate(insuranceType) ==
    CASE insuranceType = "basic"         -> 5
      [] insuranceType = "comprehensive" -> 10
      [] insuranceType = "premium"       -> 15

\* amount, in cents, is exact / scale to within half a cent
WithinHalfCent(amount, exact, scale) ==
    /\ 2 * (scale * amount - exact) <= scale
    /\ 2 * (exact - scale * amount) <= scale

\* the breakdown with every identity exact
ExactBreakdown(base, insurance, taxes, fees, total, insuranceType) ==
    /\ 100 * insurance = base * TierRate(insuranceType)
    /\ 10 * taxes = base + insurance
    /\ total = base + insurance + taxes + fees

\* the breakdown with insurance, taxes and total each rounded to the cent from
\* the unrounded amounts
RoundedBreakdown(base, insurance, taxes, fees, total, insuranceType) ==
    LET rate == TierRate(insuranceType)
    IN  /\ WithinHalfCent(insurance, base * rate, 100)
        \* 10% of (base + base * rate / 100) = base * (100 + rate) / 1000
        /\ WithinHalfCent(taxes, base * (100 + rate), 1000)
        /\ WithinHalfCent(total - base - fees, base * (10 * rate + 100 + rate), 1000)
        /\ total - (base + insurance + taxes + fees) \in {-1, 0, 1}
        /\ (base % 200 = 0 => ExactBreakdown(base, insurance, taxes, fees, total,
                                              insuranceType))

\* the price of a request is in the currency of the rate card its base price
\* was taken from
InCurrencyOfCard(bookingData) ==
    \E card \in RateCards :
        /\ bookingData.pricing.basePrice
              = TierBase(card, bookingData.duration.hours, bookingData.duration.days)
        /\ bookingData.pricing.currency = card.currency

\* C17 as stated: for every rate card, duration and tier, insurance = base x
\* tier rate, taxes = 10% of (base + insurance), total = base + insurance +
\* taxes + fee, in the currency of the card.
C17_BreakdownExact ==
    \A bookingData \in BagToSet(reqs) :
        /\ ExactBreakdown(bookingData.pricing.basePrice, bookingData.insurance.cost,
                          bookingData.pricing.taxes, bookingData.pricing.fees,
                          bookingData.pricing.totalPrice, bookingData.insurance.type)
        /\ InCurrencyOfCard(bookingData)

\* C17 amended: insurance, taxes and total are each the amount of the
\* identities rounded to the cent from the unrounded amounts, so each is
\* within half a cent of it and the total is within a cent of the sum of the
\* parts shown; the identities are exact when the base price is a multiple of
\* 2.00; the currency is the card's; 7 days, basic, daily 100 and weekly 600
\* give base 600, insurance 30, taxes 63, fee 25, total 718.
C17_BreakdownRounded ==
    /\ \A card \in RateCards, duration \in BreakdownDurations, insuranceType \in InsuranceTypes :
          LET pricing == calculateBookingPrice([pricing |-> card], duration, insuranceType)
          IN  /\ RoundedBreakdown(pricing.basePrice, pricing.insuranceCost, pricing.taxes,
                                  pricing.fees, pricing.totalPrice, insuranceType)
              /\ pricing.currency = card.currency
    /\ calculateBookingPrice(Car0, [hours |-> 168, days |-> 7], "basic")
          = [basePrice |-> 60000, insuranceCost |-> 3000, taxes |-> 6300, fees |-> 2500,
             totalPrice |-> 71800, currency |-> "USD"]
    /\ \A bookingData \in BagToSet(reqs) :
          /\ RoundedBreakdown(bookingData.pricing.basePrice, bookingData.insurance.cost,
                              bookingData.pricing.taxes, bookingData.pricing.fees,
                              bookingData.pricing.totalPrice, bookingData.insurance.type)
          /\ InCurrencyOfCard(bookingData)

\* C17 witness: a rental is being created on the card in odd cents, with base
\* 49.84, insurance 2.49 (of 2.492), taxes 5.23 (of 5.2332), fee 25.00 and total
\* 82.57 (of 82.5652)
C17_Witness ==
    \E bookingData \in BagToSet(reqs) :
        /\ bookingData.pricing = [basePrice |-> 4984, taxes |-> 523, fees |-> 2500,
                                  totalPrice |-> 8257, currency |-> "EUR"]
        /\ bookingData.insurance = [type |-> "basic", cost |-> 249]

-----------------------------------------------------------------------------
(* Properties of the request validation                                    *)

\* the elements of a sequence
Range(seq) == {seq[k] : k \in 1 .. Len(seq)}

\* C18: a Create request that breaks rules of more than one validator
\* (interval, driver license, pickup location, dropoff location) is answered
\* with an error list that holds the violations of every one of them, and
\* creates no booking.
C18_AllViolationsReported ==
    [][\A endTime \in RequestEndTimes, driverDetails \in Licenses,
          pickupLocation \in PickupLocations, dropoffLocation \in DropoffLocations \ {NoDoc} :
          LET found == <<validateBookingDates(2, 2, T0900, endTime).errors,
                         validateDriverLicense(driverDetails.licenseNumber,
                                               driverDetails.licenseExpiry).errors,
                         validateLocation(pickupLocation, "Pickup").errors,
                         validateLocation(dropoffLocation, "Dropoff").errors>>
              failing == {v \in 1 .. 4 : found[v] # <<>>}
          IN  (/\ CreateCheck("renter", "car1", 2, 2, T0900, endTime, "basic",
                              driverDetails, pickupLocation, dropoffLocation)
               /\ Cardinality(failing) > 1)
              => /\ res'.code = 400
                 /\ "errors" \in DOMAIN res'
                 /\ \A v \in failing : Range(found[v]) \subseteq Range(res'.errors)
                 /\ bookings' = bookings
                 /\ reqs' = reqs]_vars

-----------------------------------------------------------------------------
(* Properties of Rate                                                      *)

\* the booking carries a car rating
Rated(booking) == booking.rating.carRating # 0

\* C19: Rate is accepted only from the renting user, on a completed booking
\* that carries no car rating; an accepted Rate leaves a car rating on the
\* booking, which no later step removes; a Rate on a booking that carries a
\* car rating fails and changes neither that rating record nor the car's
\* average and count.
C19_RateAtMostOnce ==
    [][/\ \A user \in Users, id \in StoredIds, carRating \in {0, 5} :
             RateBooking(user, id, carRating, 5) =>
                 /\ res'.code = 200 =>
                        /\ bookings[id].user = user
                        /\ bookings[id].status = "completed"
                        /\ ~Rated(bookings[id])
                        /\ Rated(bookings'[id])
                 /\ Rated(bookings[id]) =>
                        /\ res'.code # 200
                        /\ bookings'[id].rating = bookings[id].rating
                        /\ cars' = cars
       /\ \A id \in StoredIds :
             bookings[id].status = "completed" /\ Rated(bookings[id])
                 => bookings'[id].rating = bookings[id].rating]_vars

\* C19 witness: a second Rate on a rated booking has been refused; the car
\* counts the one rating
C19_Witness ==
    /\ res.message = "Booking has already been rated"
    /\ \E id \in StoredIds : /\ bookings[id].status = "completed"
                             /\ bookings[id].rating.carRating = 5
                             /\ cars[bookings[id].car].rating.count = 1

\* the bookings of a car that carry a car rating
RatedBookings(carId) ==
    {id \in StoredIds : bookings[id].car = carId /\ Rated(bookings[id])}

RECURSIVE SumOfRatings(_)
SumOfRatings(ids) ==
    IF ids = {} THEN 0
    ELSE LET id == CHOOSE x \in ids : TRUE
         IN  bookings[id].rating.carRating + SumOfRatings(ids \ {id})

\* the car's average x count is the sum of the car ratings of its bookings
AverageIsMean(carId) ==
    LET rating == cars[carId].rating
    IN  /\ rating.count = Cardinality(RatedBookings(carId))
        /\ rating.average.num * rating.count
              = SumOfRatings(RatedBookings(carId)) * rating.average.den

\* C20: an accepted Rate raises the car's rating count by one and sets the
\* average to (old average x old count + new rating) / (old count + 1); after
\* every step average x count is the sum of the car ratings given; ratings of
\* 4 and 5 on an unrated car give average 4.5 and count 2.
C20_RunningAverage ==
    [][/\ \A id \in StoredIds, carRating \in CarRatings :
             RateBooking("renter", id, carRating, 5) /\ res'.code = 200 =>
                 LET old == cars[bookings[id].car].rating
                     new == cars'[bookings[id].car].rating
                 IN  /\ new.count = old.count + 1
                     /\ new.average.num * old.average.den * new.count
                           = (old.average.num * old.count + carRating * old.average.den)
                             * new.average.den
       /\ \A carId \in CarIds : AverageIsMean(carId)'
       /\ updateRating(updateRating(Car0, 4), 5).rating
             = [average |-> [num |-> 9, den |-> 2], count |-> 2]]_vars

\* C20 witness: two rentals of the car have been rated 4 and 5; the car's
\* average is 4.5 and its count 2
C20_Witness ==
    /\ res.message = "Booking rated successfully"
    /\ \E i \in StoredIds, j \in StoredIds :
          /\ bookings[i].rating.carRating = 4
          /\ bookings[j].rating.carRating = 5
    /\ cars["car1"].rating = [average |-> [num |-> 9, den |-> 2], count |-> 2]

-----------------------------------------------------------------------------
(* Properties of Complete                                                  *)

\* C21: Complete succeeds only when the caller is the car's owner or an admin
\* and the booking is active; it then makes the booking completed, records the
\* end mileage, the end fuel level and the post-rental inspection, and raises
\* the car's total-bookings counter by exactly one; a rejected Complete
\* changes neither the booking nor the counter.
C21_CompleteByOwnerOfActive ==
    [][\A user \in Users, id \in StoredIds :
          CompleteBooking(user, id, 120, "full") =>
              LET booking == bookings[id]
                  carId   == booking.car
              IN  IF res'.code = 200
                  THEN /\ isOwnerOrAdmin(user, cars[carId].owner)
                       /\ booking.status = "active"
                       /\ bookings'[id].status = "completed"
                       /\ bookings'[id].completion
                             = [completed |-> TRUE, mileageEnd |-> 120, fuelEndLevel |-> "full",
                                inspector |-> user, date |-> now]
                       /\ cars'[carId].totalBookings = cars[carId].totalBookings + 1
                  ELSE /\ bookings' = bookings
                       /\ cars' = cars]_vars

\* C21 witness: the owner has just completed an active booking; the car
\* counts one booking
C21_Witness ==
    /\ res.message = "Booking completed successfully"
    /\ \E id \in StoredIds : /\ bookings[id].status = "completed"
                             /\ bookings[id].completion.inspector = "owner"
                             /\ bookings[id].completion.mileageEnd = 120
                             /\ cars[bookings[id].car].totalBookings = 1

-----------------------------------------------------------------------------
(* Properties of Estimate                                                  *)

\* C22: Estimate creates and changes no booking, no car and no request in
\* flight, and the same Estimate asked again in the state it leaves gets the
\* answer it gave: the same availability, reason, duration and price breakdown.
C22_EstimateHasNoEffect ==
    [][\A carId \in CarIds \cup {NoCarId}, i \in EstimateInputs, insuranceType \in InsuranceTypes :
          GetBookingEstimate(carId, i[1], i[2], i[3], i[4], insuranceType) =>
              /\ bookings' = bookings
              /\ cars' = cars
              /\ reqs' = reqs
              /\ res' = EstimateResponse(carId, i[1], i[2], i[3], i[4], insuranceType)']_vars

\* C22 witness: an estimate has been given for a rental the car is booked for
C22_Witness ==
    /\ res.code = 200
    /\ "available" \in DOMAIN res
    /\ ~res.available
    /\ res.availabilityReason = "Car is already booked for the selected dates"
    /\ res.pricing.totalPrice > 0
    /\ \E id \in StoredIds : bookings[id].status = "pending"

-----------------------------------------------------------------------------
(* Properties of the stored price                                          *)

\* C23: the currency of a stored booking's price never changes, whatever
\* Updates of the booking and replacements of the car's rate card follow its
\* creation.
C23_CurrencyFixedAtCreation ==
    [][\A id \in StoredIds :
          bookings'[id].pricing.currency = bookings[id].pricing.currency]_vars

-----------------------------------------------------------------------------
(* Properties of the failures of the record store                          *)

\* C24: a Create or an Update whose availability check meets a failure of
\* the record store is answered with an internal error (500), not with the
\* 400 of an availability conflict or of a validation failure.
C24_StoreFailureIsInternalError ==
    [][/\ \A i \in StoreIntervals :
             (/\ CreateBookingStoreDown("renter", "car1", i[1], i[2], i[3], i[4])
              /\ validateBookingDates(i[1], i[2], i[3], i[4]).isValid)
             => res'.code = 500
       /\ \A id \in StoredIds, body \in StoreBodies :
             (/\ UpdateBookingStoreDown("renter", id, body)
              /\ bookings[id].status \in {"pending", "confirmed"}
              /\ validateBookingDates(body.startDate, body.endDate,
                                      body.startTime, body.endTime).isValid)
             => res'.code = 500]_vars

-----------------------------------------------------------------------------
(* Properties of requests handled one at a time                            *)

\* C25: when requests are handled one at a time, no car ever has two
\* bookings in status pending, confirmed or active whose date ranges share a
\* day, end points included.
C25_NoDoubleBookingInSequence ==
    \A i \in StoredIds, j \in StoredIds :
        (/\ i # j
         /\ bookings[i].car = bookings[j].car
         /\ bookings[i].status \in ActiveStatuses
         /\ bookings[j].status \in ActiveStatuses)
        => ~DaysMeet(bookings[i].startDate, bookings[i].endDate,
                     bookings[j].startDate, bookings[j].endDate)

-----------------------------------------------------------------------------
(* Properties of the start of a rental                                     *)

\* the booking becomes active in the step
BecomesActive(id) == bookings[id].status # "active" /\ bookings'[id].status = "active"

\* the step is an Update of the booking with a body that carries a status
StatusUpdate(id) ==
    \E body \in SeqBodies : "status" \in DOMAIN body /\ UpdateBooking("renter", id, body)

NotStarted(status) == status \notin {"active", "completed"}

\* C26: a booking becomes active only in an Update whose body carries the
\* status active, never in a Confirm, Cancel, Complete or Rate; while no
\* booking is active or completed, a step that is no Update with a status
\* leaves every booking neither active nor completed, and a Complete or a
\* Rate in it fails.
C26_ActiveOnlyByStatusUpdate ==
    [][/\ \A id \in StoredIds :
             BecomesActive(id) => UpdateBooking("renter", id, [status |-> "active"])
       /\ \A id \in StoredIds :
             (\/ ConfirmBooking("owner", id)
              \/ CancelBooking("renter", id, "")
              \/ CompleteBooking("owner", id, 120, "full")
              \/ RateBooking("renter", id, 5, 5)) => ~BecomesActive(id)
       /\ (/\ \A id \in StoredIds : NotStarted(bookings[id].status)
           /\ ~\E id \in StoredIds : StatusUpdate(id))
          => /\ \A id \in 1 .. Len(bookings') : NotStarted(bookings'[id].status)
             /\ \A id \in BookingIds :
                   (\/ CompleteBooking("owner", id, 120, "full")
                    \/ RateBooking("renter", id, 5, 5)) => res'.code # 200]_vars

\* C26 witness: the Complete of a confirmed booking has been refused while no
\* booking is active or completed
C26_Witness ==
    /\ res.message = "Only active bookings can be completed"
    /\ \E id \in StoredIds : bookings[id].status = "confirmed"
    /\ \A id \in StoredIds : NotStarted(bookings[id].status)

-----------------------------------------------------------------------------
(* Properties of the stored price and the stored duration                  *)

\* C27: the price breakdown and the insurance cost of every stored booking
\* are those calculateBookingPrice gives, on one of the car's rate cards, for
\* the booking's stored duration and stored insurance tier.
C27_StoredPriceIsCalculated ==
    \A id \in StoredIds :
        \E card \in RateCards :
            PricedAs(bookings[id], [pricing |-> card], bookings[id].duration,
                     bookings[id].insurance.type)

-----------------------------------------------------------------------------
(* Properties of the availability check and the time of day                *)

AlreadyBooked == "Car is already booked for the selected dates"

\* a booking other than the excluded one holds the car on a day of the range
Held(startDate, endDate, excludeBookingId) ==
    HoldingBookings("car1", startDate, endDate, excludeBookingId) # {}

\* the only bookings that hold the car on day 2 are from 09:00 to 11:00
MorningOnly ==
    /\ Held(2, 2, NoBooking)
    /\ \A id \in HoldingBookings("car1", 2, 2, NoBooking) :
          IntervalOf(bookings[id]) = <<2, 2, T0900, T1100>>

\* C28: for a listed car the availability check of Create, Update and
\* Estimate refuses a rental exactly when a holding booking of the car, the
\* booking under Update left out, shares a calendar day with it, whatever the
\* times of day: with 09:00-11:00 booked, 14:00-16:00 of the same day is
\* refused.
C28_DatesOnly ==
    [][/\ \A i \in EstimateIntervals :
             CreateCheck("renter", "car1", i[1], i[2], i[3], i[4], "basic",
                         GoodLicense, GoodLocation, GoodLocation)
             => IF Held(i[1], i[2], NoBooking)
                THEN res'.message = AlreadyBooked /\ reqs' = reqs
                ELSE res' = Idle /\ reqs' # reqs
       /\ \A id \in StoredIds, body \in EstimateBodies :
             (/\ UpdateBooking("renter", id, body)
              /\ bookings[id].status \in {"pending", "confirmed"})
             => IF Held(body.startDate, body.endDate, id)
                THEN res'.message = AlreadyBooked /\ bookings' = bookings
                ELSE res'.code = 200 /\ IntervalOf(bookings'[id])
                                          = <<body.startDate, body.endDate,
                                              body.startTime, body.endTime>>
       /\ \A i \in EstimateIntervals \cup {LongAfternoon} :
             GetBookingEstimate("car1", i[1], i[2], i[3], i[4], "basic")
             => /\ res'.available = ~Held(i[1], i[2], NoBooking)
                /\ Held(i[1], i[2], NoBooking) => res'.availabilityReason = AlreadyBooked
       /\ MorningOnly =>
             /\ CreateCheck("renter", "car1", 2, 2, T1400, T1600, "basic",
                            GoodLicense, GoodLocation, GoodLocation)
                   => res'.message = AlreadyBooked
             /\ GetBookingEstimate("car1", 2, 2, T1400, T1600, "basic") => ~res'.available]_vars

\* C28 witness: the estimate of a rental from 12:00 to 16:00 says the car is
\* booked, while the only bookings that hold it that day are from 09:00 to 11:00
C28_Witness ==
    /\ MorningOnly
    /\ "available" \in DOMAIN res
    /\ ~res.available
    /\ res.availabilityReason = AlreadyBooked
    /\ res.duration = [hours |-> 4, days |-> 1]

-----------------------------------------------------------------------------
(* Properties of Rate requests handled side by side                        *)

\* C29: whenever no Rate request is between its reads and its writes, the
\* rating count of every car is the number of the car's bookings that carry
\* a rating, however the Rate requests handled before were interleaved.
C29_CountIsRatedBookings ==
    rates = EmptyBag =>
        \A carId \in CarIds :
            cars[carId].rating.count = Cardinality(RatedBookings(carId))

-----------------------------------------------------------------------------
(* Properties of the availability query                                    *)

\* C30: for a listed car and a date range the availability query reports
\* available = true exactly when the availability check of Create accepts
\* the car for the range: false when the car is not active, when the range
\* meets a maintenance window, and when it meets a pending, confirmed or
\* active booking.
C30_QueryAgreesWithCheck ==
    [][\A carId \in CarIds, i \in Intervals :
          (GetCarAvailability(carId, i[1], i[2]) /\ CarExists(carId))
          => res'.available
                = checkCarAvailability(carId, i[1], i[2], NoBooking).isAvailable]_vars

====
